---- MODULE Spec2Model ----
(***************************************************************************)
(* Napster-to-Spotify sync: the destination-catalog resolver (the Spotify  *)
(* adapter with its process-wide caches), the import driver and the        *)
(* caller's batched add step.                                              *)
(*                                                                         *)
(* Titles are sequences of one-character strings, so that case folding,    *)
(* trimming and normalisation are computed character by character.         *)
(* Every call of a handler is one action; a handler threads a record `st`  *)
(* (the three caches and the log of destination-catalog requests) through  *)
(* the calls it makes, and returns a record [kind, val, st].               *)
(***************************************************************************)
EXTENDS Integers, Sequences, FiniteSets, TLC

VARIABLES
    catalog,         \* the destination catalog (unchanged during a run)
    emptyAlbumResp,  \* what the catalog answers to an album-tracks request for the empty album id
    allowCache,      \* sync.go:141
    cachedArtists,   \* sync.go:131 (name -> ids), spotify.go:28 (name -> id)
    cachedAlbums,    \* sync.go:132
    cachedTracks,    \* sync.go:133
    reqs,            \* log of the requests issued so far, to either catalog
    calls,           \* resolver calls made so far, with their results
    pc,              \* position of the run
    favorites,       \* the source catalog's favorite tracks
    onlyArtists,     \* the allow-list (lower-cased in place by GetTracksToAdd)
    playlistName,    \* the playlist name given by the caller
    noChanges,       \* the caller's no-changes flag
    userId,          \* SpotifyCache.userId
    playlistCache,   \* SpotifyCache.playlistCache
    playlist,        \* identifiers in the destination playlist
    spotifyIndex,    \* Importer.spotifyIndex
    artistNotices,   \* Importer.artistNotices
    offset,          \* Importer.offset
    idList,          \* trackCollector.idList
    missing,         \* the "not found" phrases
    skipped,         \* the skipped count
    trace,           \* one entry per favorite the driver has processed
    runErr,          \* the error the run ended with, or "none"
    ignoredArtists,  \* the sorted list of ignored artists GetTracksToAdd logs
    ids,             \* main: the keys of the result of GetTracksToAdd
    pending,         \* main: keys of the result not yet visited by the add loop
    batchIdList,     \* main: identifiers collected for the next add-call
    batchJ,          \* main: the index j into batchIdList
    addCalls,        \* main: the identifier lists handed to add-tracks, in call order
    handlers,        \* the invocations of SpotifyAuthorizer.handleResponse so far
    spotifyAuth,     \* main: the session credential received from authC
    exitStatus       \* the exit status of the process, or "running"

vars == <<catalog, emptyAlbumResp, allowCache, cachedArtists, cachedAlbums,
          cachedTracks, reqs, calls, pc, favorites, onlyArtists, playlistName,
          noChanges, userId, playlistCache, playlist,
          spotifyIndex, artistNotices, offset, idList, missing, skipped,
          trace, runErr, ignoredArtists, ids, pending, batchIdList, batchJ, addCalls,
          handlers, spotifyAuth, exitStatus>>

processVars == <<handlers, spotifyAuth, exitStatus>>
resolverVars == <<cachedArtists, cachedAlbums, cachedTracks, reqs>>
envVars == <<catalog, emptyAlbumResp, allowCache, favorites, playlistName, noChanges>>
driverVars == <<favorites, onlyArtists, playlistName, noChanges, userId,
                playlistCache, playlist, spotifyIndex, artistNotices,
                offset, idList, missing, skipped, trace, runErr,
                ignoredArtists, ids, pending, batchIdList, batchJ, addCalls>>

-----------------------------------------------------------------------------
(* Bounds *)

MaxCalls == 2
MaxFav == 3
MaxFail == 3
MaxTitleLen == 4

\* the two batch sizes the caller configures (main.go:23 and main.go:28),
\* scaled to the favorites of the model
napsterBatchSize == 2
spotifyBatchSize == 2

(* Program constants *)

SpotifyReadBatchSize == 50
\* a page limit of two pages
maxPagesTwo == 1 + 1

maxPages == 1

-----------------------------------------------------------------------------
(* Strings *)

Min(a, b) == IF a < b THEN a ELSE b

Letters == {"x", "y", "z", "w", "v", "q", "X", "Y", "Z", "W", "V", "Q"}

\* the characters the pattern [^a-zA-Z0-9']+ does not match
ValidChars == Letters \cup {"'", "1"}

\* a conversion that changes the case of every letter
ToggleCaseChar(c) ==
    CASE c = "X" -> "x" [] c = "Y" -> "y" [] c = "Z" -> "z"
      [] c = "W" -> "w" [] c = "V" -> "v" [] c = "Q" -> "q"
      [] c = "x" -> "X" [] c = "y" -> "Y" [] c = "z" -> "Z"
      [] c = "w" -> "W" [] c = "v" -> "V" [] c = "q" -> "Q"
      [] OTHER -> c

ToLowerChar(c) ==
    CASE c = "X" -> "x" [] c = "Y" -> "y" [] c = "Z" -> "z"
      [] c = "W" -> "w" [] c = "V" -> "v" [] c = "Q" -> "q"
      [] OTHER -> c

ToLower(s) == [i \in 1..Len(s) |-> ToLowerChar(s[i])]

RECURSIVE TrimLeft(_)
TrimLeft(s) == IF s # <<>> /\ Head(s) = " " THEN TrimLeft(Tail(s)) ELSE s

RECURSIVE TrimRight(_)
TrimRight(s) ==
    IF s # <<>> /\ s[Len(s)] = " " THEN TrimRight(SubSeq(s, 1, Len(s) - 1)) ELSE s

TrimSpace(s) == TrimRight(TrimLeft(s))

\* the Go index of the last occurrence of the one-character string c, or -1
LastIndex(s, c) ==
    LET hits == {i \in 1..Len(s) : s[i] = c}
    IN  IF hits = {} THEN -1 ELSE (CHOOSE i \in hits : \A j \in hits : j <= i) - 1

RECURSIVE DropWhile(_, _)
DropWhile(s, set) ==
    IF s # <<>> /\ Head(s) \in set THEN DropWhile(Tail(s), set) ELSE s

\* Regexp.ReplaceAllString for a pattern matching the maximal runs of the
\* characters in `set`
RECURSIVE ReplaceRuns(_, _, _)
ReplaceRuns(s, set, repl) ==
    IF s = <<>> THEN <<>>
    ELSE IF Head(s) \in set
         THEN repl \o ReplaceRuns(DropWhile(s, set), set, repl)
         ELSE <<Head(s)>> \o ReplaceRuns(Tail(s), set, repl)

AllChars == ValidChars \cup {" ", "-", "(", ")", "[", "]", "!"}

normalizeTitle(arg) ==
    LET d1 == ReplaceRuns(arg, AllChars \ ValidChars, <<" ">>)
        d2 == ReplaceRuns(d1, {" "}, <<" ">>)
    IN  ToLower(d2)

PANIC == <<"runtime error">>

\* the i-th character in Go's 0-based indexing
At(s, i) == s[i + 1]

RECURSIVE SkipSpacesLeft(_, _)
SkipSpacesLeft(d, i) ==
    IF i > 0 /\ At(d, i) = " " THEN SkipSpacesLeft(d, i - 1) ELSE i

removeSuffixClause(arg, leftDelimiter, rightDelimiter) ==
    LET cut(distilled, i) ==
            IF i = -1 THEN distilled
            ELSE SubSeq(distilled, 1, SkipSpacesLeft(distilled, i - 1) + 1)
        strip(distilled) ==
            IF Len(distilled) = 0 THEN PANIC      \* distilled[:-1]
            ELSE IF SubSeq(distilled, 1, Len(distilled) - 1) # <<rightDelimiter>>
                 THEN distilled
                 ELSE cut(distilled, LastIndex(distilled, leftDelimiter))
    IN  strip(TrimSpace(arg))

simplifyTitle(arg) ==
    LET second(d1) == IF d1 = PANIC THEN PANIC ELSE removeSuffixClause(d1, "[", "]")
    IN  second(removeSuffixClause(arg, "(", ")"))

\* isEqual returns [err, eq]: a panic inside is recovered and returned as err
isEqual(arg1, arg2, doLiberalSearch) ==
    LET failed == [err |-> TRUE, eq |-> FALSE]
        both(s1, s2) ==
            IF s2 = PANIC THEN failed ELSE [err |-> FALSE, eq |-> s1 = s2]
        first(s1, a2) ==
            IF s1 = PANIC THEN failed ELSE both(s1, simplifyTitle(a2))
        compare(a1, a2) ==
            IF doLiberalSearch
            THEN first(simplifyTitle(a1), a2)
            ELSE [err |-> FALSE,
                  eq |-> a1 = a2 \/ normalizeTitle(a1) = normalizeTitle(a2)]
    IN  compare(ToLower(TrimSpace(arg1)), ToLower(TrimSpace(arg2)))

-----------------------------------------------------------------------------
(* The destination catalog, as the HTTP client shows it *)

NoId == ""

\* Client.Search(name, SearchTypeArtist) answers with the first result page,
\* Client.NextArtistResults with the following ones
ArtistPage(k) ==
    IF k <= Len(catalog.artistPages) THEN catalog.artistPages[k] ELSE <<>>

\* Client.GetArtistAlbumsOpt(artistId, {offset, limit}, "album")
AlbumPage(artistId, off, limit) ==
    LET all == IF artistId \in DOMAIN catalog.albums
               THEN catalog.albums[artistId] ELSE <<>>
    IN  SubSeq(all, off + 1, Min(Len(all), off + limit))

\* Client.GetAlbumTracksOpt(albumId, limit, offset)
TrackPage(albumId, off, limit) ==
    LET all == IF albumId \in DOMAIN catalog.tracks
               THEN catalog.tracks[albumId] ELSE <<>>
    IN  SubSeq(all, off + 1, Min(Len(all), off + limit))

\* the request is appended to the log; it fails when it is the one the
\* environment lets fail
Request(st, op, a, n) ==
    [st EXCEPT !.reqs = Append(@, [op |-> op, a |-> a, n |-> n,
                                   failed |-> st.failAt = Len(st.reqs) + 1,
                                   liberal |-> FALSE])]

\* the albums request of getSpotifyAlbumId; the log keeps the mode of the
\* lookup that issued it
RequestAlbums(st, artistId, off, doLiberalSearch) ==
    [st EXCEPT !.reqs = Append(@, [op |-> "GetArtistAlbumsOpt", a |-> artistId,
                                   n |-> off,
                                   failed |-> st.failAt = Len(st.reqs) + 1,
                                   liberal |-> doLiberalSearch])]

Failed(st) == st.failAt # 0 /\ Len(st.reqs) = st.failAt

\* an album-tracks request for the empty album id is answered with an error
\* or with no tracks, as the catalog decides
BadAlbumId(albumId) == albumId = NoId /\ emptyAlbumResp = "error"

\* the credential of the authorized session the run works with
SessionCredential == "s0"

Ret(kind, val, st) == [kind |-> kind, val |-> val, st |-> st]

MapPut(m, k, v) == (k :> v) @@ m

-----------------------------------------------------------------------------
(* SpotifyAdapter.searchSpotifyArtists *)

RECURSIVE MatchingArtists(_, _)
MatchingArtists(page, name) ==
    IF page = <<>> THEN <<>>
    ELSE LET an == ToLower(Head(page).name)
         IN  (IF an = name THEN <<Head(page).id>> ELSE <<>>)
                 \o MatchingArtists(Tail(page), name)

\* the page loop: sr is the number of the page held (0: none yet)
RECURSIVE searchArtistPages(_, _, _, _, _)
searchArtistPages(name, j, sr, matching, st) ==
    IF j >= maxPages THEN Ret("ok", matching, st)
    ELSE IF sr # 0 /\ ArtistPage(sr + 1) = <<>>
         THEN Ret("ok", matching, st)             \* ErrNoMorePages: break
         ELSE LET st1 == IF sr = 0 THEN Request(st, "Search", name, 0)
                         ELSE Request(st, "NextArtistResults", name, sr)
                  page == ArtistPage(sr + 1)
              IN  IF Failed(st1) THEN Ret("Fatal", <<>>, st1)
                  ELSE IF Len(page) = 0 THEN Ret("Fatal", <<>>, st1)   \* "no artists"
                  ELSE searchArtistPages(name, j + 1, sr + 1,
                                         matching \o MatchingArtists(page, name), st1)

\* a store that leaves the artist cache as it is
storeArtistsNot(st, name, matching) == st

\* a store that keeps only the first of the matching artists
storeArtistsFirst(st, name, matching) ==
    IF allowCache
    THEN [st EXCEPT !.cachedArtists = MapPut(@, name, <<Head(matching)>>)]
    ELSE st

\* cachedArtists[name] = matching, when caching is allowed
storeArtists(st, name, matching) ==
    IF allowCache THEN [st EXCEPT !.cachedArtists = MapPut(@, name, matching)] ELSE st

\* a search that also stores the empty result of a name it did not find
searchSpotifyArtistsStoringMisses(name, st) ==
    LET finish(r) ==
            IF r.kind # "ok" THEN r
            ELSE IF Len(r.val) > 0
                 THEN Ret("ok", r.val, storeArtists(r.st, name, r.val))
                 ELSE Ret("ArtistNotFound", <<>>, storeArtists(r.st, name, r.val))
    IN  IF allowCache /\ name \in DOMAIN st.cachedArtists
        THEN Ret("ok", st.cachedArtists[name], st)
        ELSE finish(searchArtistPages(name, 0, 0, <<>>, st))

searchSpotifyArtists(name, st) ==
    LET finish(r) ==
            IF r.kind # "ok" THEN r
            ELSE IF Len(r.val) > 0
                 THEN Ret("ok", r.val, storeArtists(r.st, name, r.val))
                 ELSE Ret("ArtistNotFound", <<>>, r.st)
    IN  IF allowCache /\ name \in DOMAIN st.cachedArtists
        THEN Ret("ok", st.cachedArtists[name], st)
        ELSE finish(searchArtistPages(name, 0, 0, <<>>, st))

-----------------------------------------------------------------------------
(* SpotifyAdapter.getSpotifyAlbumId *)

\* a scan that goes on after a match and keeps the last one of the page
scanAlbumsLast(page, name, doLiberalSearch) ==
    LET m(i) == isEqual(ToLower(page[i].name), name, doLiberalSearch)
        errs == {i \in 1..Len(page) : m(i).err}
        hits == {i \in 1..Len(page) : m(i).eq}
        last == CHOOSE i \in hits : \A h \in hits : h <= i
    IN  IF errs # {} THEN [kind |-> "err", id |-> NoId]
        ELSE IF hits = {} THEN [kind |-> "none", id |-> NoId]
        ELSE [kind |-> "match", id |-> page[last].id]

\* the scan of one page: the first album that isEqual accepts
RECURSIVE scanAlbums(_, _, _)
scanAlbums(page, name, doLiberalSearch) ==
    LET decide(m) ==
            IF m.err THEN [kind |-> "err", id |-> NoId]
            ELSE IF m.eq THEN [kind |-> "match", id |-> Head(page).id]
            ELSE scanAlbums(Tail(page), name, doLiberalSearch)
    IN  IF page = <<>> THEN [kind |-> "none", id |-> NoId]
        ELSE decide(isEqual(ToLower(Head(page).name), name, doLiberalSearch))

RECURSIVE albumPages(_, _, _, _, _, _)
albumPages(artistId, name, doLiberalSearch, albumAllowCache, off, st) ==
    LET decide(s, len_, st1) ==
            IF s.kind = "err" THEN Ret("Fatal", NoId, st1)
            ELSE IF s.kind = "match"
                 THEN Ret("ok", s.id,
                          IF albumAllowCache
                          THEN [st1 EXCEPT !.cachedAlbums =
                                   MapPut(@, <<artistId, name>>, s.id)]
                          ELSE st1)
                 ELSE albumPages(artistId, name, doLiberalSearch,
                                 albumAllowCache, off + len_, st1)
        read(page, st1) ==
            IF Failed(st1) THEN Ret("Fatal", NoId, st1)
            ELSE IF Len(page) = 0 THEN Ret("AlbumNotFound", NoId, st1)
            ELSE decide(scanAlbums(page, name, doLiberalSearch), Len(page), st1)
    IN  read(AlbumPage(artistId, off, SpotifyReadBatchSize),
             RequestAlbums(st, artistId, off, doLiberalSearch))

\* a lookup that uses the album cache in liberal mode too
getSpotifyAlbumIdCaching(artistId, name, doLiberalSearch, st) ==
    IF allowCache /\ <<artistId, name>> \in DOMAIN st.cachedAlbums
    THEN Ret("ok", st.cachedAlbums[<<artistId, name>>], st)
    ELSE albumPages(artistId, name, doLiberalSearch, allowCache, 0, st)

getSpotifyAlbumId(artistId, name, doLiberalSearch, st) ==
    LET albumAllowCache == IF doLiberalSearch THEN FALSE ELSE allowCache
        cak == <<artistId, name>>
    IN  IF albumAllowCache /\ cak \in DOMAIN st.cachedAlbums
        THEN Ret("ok", st.cachedAlbums[cak], st)
        ELSE albumPages(artistId, name, doLiberalSearch, albumAllowCache, 0, st)

-----------------------------------------------------------------------------
(* SpotifyAdapter.getSpotifyTrackIds and getSpotifyTrackId *)

RECURSIVE indexTracks(_, _)
indexTracks(page, tracks) ==
    IF page = <<>> THEN tracks
    ELSE indexTracks(Tail(page),
                     MapPut(tracks, normalizeTitle(Head(page).name), Head(page).id))

\* getSpotifyTrackIds reads the album's track list page by page
RECURSIVE trackPages(_, _, _, _)
trackPages(albumId, i, tracks, st) ==
    LET st1 == Request(st, "GetAlbumTracksOpt", albumId, i)
        page == TrackPage(albumId, i, SpotifyReadBatchSize)
    IN  IF Failed(st1) \/ BadAlbumId(albumId) THEN Ret("Fatal", tracks, st1)
        ELSE IF Len(page) = 0 THEN Ret("ok", tracks, st1)
        ELSE trackPages(albumId, i + Len(page), indexTracks(page, tracks), st1)

\* a lookup that does not report the names it did not find
RECURSIVE lookupTracksSilent(_, _, _)
lookupTracksSilent(names, tracks, acc) ==
    LET look(name) ==
            lookupTracksSilent(Tail(names), tracks,
                IF name \in DOMAIN tracks
                THEN [acc EXCEPT !.found = MapPut(@, tracks[name], name)]
                ELSE acc)
    IN  IF names = <<>> THEN acc ELSE look(normalizeTitle(Head(names)))

RECURSIVE lookupTracks(_, _, _)
lookupTracks(names, tracks, acc) ==
    LET look(name) ==
            lookupTracks(Tail(names), tracks,
                IF name \in DOMAIN tracks
                THEN [acc EXCEPT !.found = MapPut(@, tracks[name], name)]
                ELSE [acc EXCEPT !.missing = Append(@, name)])
    IN  IF names = <<>> THEN acc ELSE look(normalizeTitle(Head(names)))

NoTracks == [isNil |-> TRUE, found |-> <<>>, missing |-> <<>>]

\* a lookup that reads the track list from the catalog on every call
getSpotifyTrackIdsUncached(albumId, names, st) ==
    LET finish(r) ==
            IF r.kind # "ok" THEN Ret("Fatal", NoTracks, r.st)
            ELSE Ret("ok",
                     lookupTracks(names, r.val,
                         [isNil |-> FALSE, found |-> <<>>, missing |-> <<>>]),
                     IF allowCache
                     THEN [r.st EXCEPT !.cachedTracks = MapPut(@, albumId, r.val)]
                     ELSE r.st)
    IN  finish(trackPages(albumId, 0, <<>>, st))

getSpotifyTrackIds(albumId, names, st) ==
    LET found == allowCache /\ albumId \in DOMAIN st.cachedTracks
        finish(r) ==
            IF r.kind # "ok" THEN Ret("Fatal", NoTracks, r.st)
            ELSE Ret("ok",
                     lookupTracks(names, r.val,
                         [isNil |-> FALSE, found |-> <<>>, missing |-> <<>>]),
                     IF ~found /\ allowCache
                     THEN [r.st EXCEPT !.cachedTracks = MapPut(@, albumId, r.val)]
                     ELSE r.st)
    IN  finish(IF found THEN Ret("ok", st.cachedTracks[albumId], st)
               ELSE trackPages(albumId, 0, <<>>, st))

\* getSpotifyTrackId reads the track list with one request
getSpotifyTrackId(albumId, name0, st) ==
    LET found == allowCache /\ albumId \in DOMAIN st.cachedTracks
        finish(name, tracks, st1) ==
            IF ~found /\ (Failed(st1) \/ BadAlbumId(albumId))
            THEN Ret("Fatal", NoId, st1)
            ELSE IF name \in DOMAIN tracks
                 THEN Ret("ok", tracks[name],
                          IF ~found /\ allowCache
                          THEN [st1 EXCEPT !.cachedTracks = MapPut(@, albumId, tracks)]
                          ELSE st1)
                 ELSE Ret("TrackNotFound", NoId,
                          IF ~found /\ allowCache
                          THEN [st1 EXCEPT !.cachedTracks = MapPut(@, albumId, tracks)]
                          ELSE st1)
    IN  finish(normalizeTitle(name0),
               IF found THEN st.cachedTracks[albumId]
               ELSE indexTracks(TrackPage(albumId, 0, SpotifyReadBatchSize), <<>>),
               IF found THEN st ELSE Request(st, "GetAlbumTracks", albumId, 0))

-----------------------------------------------------------------------------
(* SpotifyAdapter.GetSpotifyTrackIdsWithNames *)

\* one pass (strict or liberal) over the candidate artists; cur holds the
\* named results foundTracks/missingTracks as last assigned
RECURSIVE albumPass(_, _, _, _, _, _)
albumPass(artistIds, albumName, tracks, doLiberalSearch, cur, st) ==
    LET withTracks(t) ==
            IF t.kind # "ok" THEN Ret("Fatal", cur, t.st)
            ELSE IF Cardinality(DOMAIN t.val.found) = 0
                 THEN albumPass(Tail(artistIds), albumName, tracks,
                                doLiberalSearch, t.val, t.st)
                 ELSE Ret("ok", t.val, t.st)
        withAlbum(a) ==
            IF a.kind = "AlbumNotFound"
            THEN albumPass(Tail(artistIds), albumName, tracks, doLiberalSearch, cur, a.st)
            ELSE IF a.kind # "ok" THEN Ret("Fatal", cur, a.st)
            ELSE withTracks(getSpotifyTrackIds(a.val, tracks, a.st))
    IN  IF artistIds = <<>> THEN Ret("next", cur, st)
        ELSE withAlbum(getSpotifyAlbumId(Head(artistIds), albumName, doLiberalSearch, st))

\* a test that takes an empty found map for a missing one
searchedTracksNonEmpty(t) == ~t.isNil /\ DOMAIN t.found # {}

\* foundTracks != nil: some album's tracks were searched
searchedTracks(t) == ~t.isNil

\* a resolver that starts with the liberal pass and retries strictly
GetSpotifyTrackIdsWithNamesLiberalFirst(artistName, albumName, tracks, st) ==
    LET afterLiberal(p2) ==
            IF p2.kind # "next" THEN p2
            ELSE IF searchedTracks(p2.val) THEN Ret("ok", p2.val, p2.st)
            ELSE Ret("AlbumNotFound", NoTracks, p2.st)
        afterStrict(artistIds, p1) ==
            IF p1.kind # "next" THEN p1
            ELSE afterLiberal(albumPass(artistIds, albumName, tracks, FALSE, p1.val, p1.st))
        withArtists(ar) ==
            IF ar.kind # "ok" THEN Ret(ar.kind, NoTracks, ar.st)
            ELSE afterStrict(ar.val,
                             albumPass(ar.val, albumName, tracks, TRUE, NoTracks, ar.st))
    IN  withArtists(searchSpotifyArtists(artistName, st))

GetSpotifyTrackIdsWithNames(artistName, albumName, tracks, st) ==
    LET afterLiberal(p2) ==
            IF p2.kind # "next" THEN p2
            ELSE IF searchedTracks(p2.val) THEN Ret("ok", p2.val, p2.st)
            ELSE Ret("AlbumNotFound", NoTracks, p2.st)
        afterStrict(artistIds, p1) ==
            IF p1.kind # "next" THEN p1
            ELSE afterLiberal(albumPass(artistIds, albumName, tracks, TRUE, p1.val, p1.st))
        withArtists(ar) ==
            IF ar.kind # "ok" THEN Ret(ar.kind, NoTracks, ar.st)
            ELSE afterStrict(ar.val,
                             albumPass(ar.val, albumName, tracks, FALSE, NoTracks, ar.st))
    IN  withArtists(searchSpotifyArtists(artistName, st))

-----------------------------------------------------------------------------
(* SpotifyAdapter.getSpotifyArtistId and GetSpotifyTrackIdWithNames: the    *)
(* single-track resolver the import driver calls                            *)

\* the scan of one page: every match overwrites the cache entry and lastFound
RECURSIVE scanArtists(_, _, _, _)
scanArtists(page, name, lastFound, st) ==
    IF page = <<>> THEN Ret("ok", lastFound, st)
    ELSE LET a == Head(page)
             hit == ToLower(a.name) = name
         IN  scanArtists(Tail(page), name,
                         IF hit THEN a.id ELSE lastFound,
                         IF hit /\ allowCache
                         THEN [st EXCEPT !.cachedArtists = MapPut(@, name, a.id)]
                         ELSE st)

RECURSIVE artistIdPages(_, _, _, _)
artistIdPages(name, j, sr, st) ==
    LET decide(s) ==
            IF s.val # NoId THEN s ELSE artistIdPages(name, j + 1, sr + 1, s.st)
        read(page, st1) ==
            IF Failed(st1) THEN Ret("Fatal", NoId, st1)
            ELSE IF Len(page) = 0 THEN Ret("Fatal", NoId, st1)   \* "no artists"
            ELSE decide(scanArtists(page, name, NoId, st1))
    IN  IF j >= maxPages THEN Ret("ArtistNotFound", NoId, st)
        ELSE IF sr # 0 /\ ArtistPage(sr + 1) = <<>>
             THEN Ret("ArtistNotFound", NoId, st)       \* ErrNoMorePages: break
             ELSE read(ArtistPage(sr + 1),
                       IF sr = 0 THEN Request(st, "Search", name, 0)
                       ELSE Request(st, "NextArtistResults", name, sr))

getSpotifyArtistId(name, st) ==
    IF allowCache /\ name \in DOMAIN st.cachedArtists
    THEN Ret("ok", st.cachedArtists[name], st)
    ELSE artistIdPages(name, 0, 0, st)

GetSpotifyTrackIdWithNames(artistName, albumName, trackName, st) ==
    LET \* the error of the liberal retry is not looked at
        withAlbum(a2) == getSpotifyTrackId(a2.val, trackName, a2.st)
        afterStrict(artistId, a1) ==
            IF a1.kind = "AlbumNotFound"
            THEN withAlbum(getSpotifyAlbumId(artistId, albumName, TRUE, a1.st))
            ELSE IF a1.kind # "ok" THEN Ret("Fatal", NoId, a1.st)
            ELSE withAlbum(a1)
        withArtist(ar) ==
            IF ar.kind # "ok" THEN Ret(ar.kind, NoId, ar.st)
            ELSE afterStrict(ar.val, getSpotifyAlbumId(ar.val, albumName, FALSE, ar.st))
    IN  withArtist(getSpotifyArtistId(artistName, st))

-----------------------------------------------------------------------------
(* Names and destination catalogs *)

nX == <<"X">>
nx == <<"x">>
nW == <<"W">>
nw == <<"w">>
nv == <<"v">>
nY == <<"Y">>
ny == <<"y">>
nZ == <<"Z">>
nz == <<"z">>
nV == <<"V">>
nQ == <<"Q">>
nq == <<"q">>
nYdashZ == <<"Y", "-", "Z">>
nYspaceZ == <<"Y", " ", "Z">>
nyz == <<"y", " ", "z">>

Ent(name, id) == [name |-> name, id |-> id]

\* artist X with album Y holding the tracks Z, V and W; artist W without albums
CatPlain ==
    [artistPages |-> << <<Ent(nX, "a1"), Ent(nW, "a2")>> >>,
     albums |-> ("a1" :> <<Ent(nY, "b1")>>) @@ ("a2" :> <<>>),
     tracks |-> ("b1" :> <<Ent(nZ, "t1"), Ent(nV, "t2"), Ent(nW, "t3")>>)]

\* the only artist named X is on the second result page
CatSecondPage ==
    [artistPages |-> << <<Ent(nW, "a2")>>, <<Ent(nX, "a1")>> >>,
     albums |-> ("a1" :> <<Ent(nY, "b1")>>) @@ ("a2" :> <<>>),
     tracks |-> ("b1" :> <<Ent(nZ, "t1")>>)]

\* three records named X/x/X: the first holds album Y without the track Z,
\* the second holds album Y with it, the third has no album
CatTwoArtists ==
    [artistPages |-> << <<Ent(nX, "a1"), Ent(nW, "a2"), Ent(nx, "a3"), Ent(nX, "a4")>> >>,
     albums |-> ("a1" :> <<Ent(nY, "b1")>>) @@ ("a2" :> <<>>)
                  @@ ("a3" :> <<Ent(nY, "b2")>>) @@ ("a4" :> <<>>),
     tracks |-> ("b1" :> <<Ent(nQ, "t3")>>) @@ ("b2" :> <<Ent(nZ, "t1")>>)]

\* album Y exists but holds none of the requested tracks
CatNoTracks ==
    [artistPages |-> << <<Ent(nX, "a1")>> >>,
     albums |-> ("a1" :> <<Ent(nY, "b1"), Ent(nYspaceZ, "b2")>>),
     tracks |-> ("b1" :> <<Ent(nV, "t2")>>) @@ ("b2" :> <<>>)]

\* "Y-Z" equals "y z" only after normalisation, "Y Z" equals it as written
CatLiberal ==
    [artistPages |-> << <<Ent(nX, "a1")>> >>,
     albums |-> ("a1" :> <<Ent(nYdashZ, "b1"), Ent(nYspaceZ, "b2")>>),
     tracks |-> ("b1" :> <<Ent(nV, "t2")>>) @@ ("b2" :> <<Ent(nZ, "t1")>>)]

\* the artist search has no result at all
CatEmpty ==
    [artistPages |-> <<>>, albums |-> ("a1" :> <<>>), tracks |-> ("b1" :> <<>>)]

Catalogs == {CatPlain, CatSecondPage, CatTwoArtists, CatNoTracks, CatLiberal, CatEmpty}

-----------------------------------------------------------------------------
(* The resolver on its own: calls of searchSpotifyArtists and              *)
(* GetSpotifyTrackIdsWithNames against an unchanged catalog                 *)

ArtistQueries == {nx, nX, nv}
AlbumQueries == {ny, nyz}
TrackQueries == {<<nz>>, <<nZ, nq>>}

St(f) == [cachedArtists |-> cachedArtists, cachedAlbums |-> cachedAlbums,
          cachedTracks |-> cachedTracks, reqs |-> reqs,
          failAt |-> IF f = 0 THEN 0 ELSE Len(reqs) + f]

SetSt(st) ==
    /\ cachedArtists' = st.cachedArtists
    /\ cachedAlbums' = st.cachedAlbums
    /\ cachedTracks' = st.cachedTracks
    /\ reqs' = st.reqs

Call(op, artist, album, tracks, f, r, artistIds, res) ==
    [op |-> op, artist |-> artist, album |-> album, tracks |-> tracks, f |-> f,
     kind |-> r.kind, ids |-> artistIds, found |-> res.found, missing |-> res.missing,
     n0 |-> Len(reqs), n1 |-> Len(r.st.reqs), hit |-> artist \in DOMAIN cachedArtists]

InitEnv ==
    /\ catalog \in Catalogs
    /\ emptyAlbumResp \in {"error", "empty"}
    /\ allowCache = TRUE
    /\ cachedArtists = <<>>
    /\ cachedAlbums = <<>>
    /\ cachedTracks = <<>>
    /\ reqs = <<>>
    /\ calls = <<>>

InitIdleDriver ==
    /\ favorites = <<>>
    /\ onlyArtists = <<>>
    /\ playlistName = <<>>
    /\ noChanges = FALSE
    /\ userId = ""
    /\ playlistCache = <<>>
    /\ playlist = <<>>
    /\ spotifyIndex = {}
    /\ artistNotices = {}
    /\ offset = 0
    /\ idList = <<>>
    /\ missing = <<>>
    /\ skipped = 0
    /\ trace = <<>>
    /\ runErr = "none"
    /\ ignoredArtists = <<>>
    /\ ids = {}
    /\ pending = {}
    /\ batchIdList = <<>>
    /\ batchJ = 0
    /\ addCalls = <<>>
    /\ handlers = <<>>
    /\ spotifyAuth = SessionCredential
    /\ exitStatus = "running"

InitResolver ==
    /\ InitEnv
    /\ emptyAlbumResp = "error"
    /\ pc = "resolver"
    /\ InitIdleDriver

CallSearchSpotifyArtists(name, f) ==
    /\ pc = "resolver"
    /\ Len(calls) < MaxCalls
    /\ LET r == searchSpotifyArtists(name, St(f))
       IN  /\ SetSt(r.st)
           /\ calls' = Append(calls,
                 Call("searchSpotifyArtists", name, <<>>, <<>>, f, r, r.val, NoTracks))
    /\ UNCHANGED <<catalog, emptyAlbumResp, allowCache, pc, driverVars>>
    /\ UNCHANGED processVars

CallGetSpotifyTrackIdsWithNames(artistName, albumName, tracks, f) ==
    /\ pc = "resolver"
    /\ Len(calls) < MaxCalls
    /\ LET r == GetSpotifyTrackIdsWithNames(artistName, albumName, tracks, St(f))
       IN  /\ SetSt(r.st)
           /\ calls' = Append(calls,
                 Call("GetSpotifyTrackIdsWithNames", artistName, albumName, tracks,
                      f, r, <<>>, r.val))
    /\ UNCHANGED <<catalog, emptyAlbumResp, allowCache, pc, driverVars>>
    /\ UNCHANGED processVars

NextResolver ==
    \/ \E name \in ArtistQueries, f \in 0..MaxFail :
          CallSearchSpotifyArtists(name, f)
    \/ \E artistName \in {nx, nv}, albumName \in AlbumQueries,
          tracks \in TrackQueries, f \in 0..MaxFail :
          CallGetSpotifyTrackIdsWithNames(artistName, albumName, tracks, f)

SpecResolver == InitResolver /\ [][NextResolver]_vars

-----------------------------------------------------------------------------
(* SpotifyCache, SpotifyAdapter.ReadSpotifyPlaylist and the preload of the  *)
(* existing playlist                                                        *)

\* what the destination answers for the authorized user
CurrentUser == "u1"
UserPlaylists == <<Ent(nW, "p2"), Ent(nQ, "p1"), Ent(nq, "p3")>>

GetSpotifyCurrentUserId(cachedUserId, st) ==
    IF cachedUserId # "" THEN Ret("ok", cachedUserId, st)
    ELSE LET st1 == Request(st, "CurrentUser", NoId, 0)
         IN  IF Failed(st1) THEN Ret("Fatal", "", st1)
             ELSE Ret("ok", CurrentUser, st1)

\* the last playlist of the user with that name, ignoring case
RECURSIVE findPlaylistLast(_, _)
findPlaylistLast(playlists, lname) ==
    IF playlists = <<>> THEN NoId
    ELSE IF ToLower(playlists[Len(playlists)].name) = lname
         THEN playlists[Len(playlists)].id
         ELSE findPlaylistLast(SubSeq(playlists, 1, Len(playlists) - 1), lname)

\* the first playlist of the user with that name, ignoring case
RECURSIVE findPlaylist(_, _)
findPlaylist(playlists, lname) ==
    IF playlists = <<>> THEN NoId
    ELSE IF ToLower(Head(playlists).name) = lname THEN Head(playlists).id
    ELSE findPlaylist(Tail(playlists), lname)

\* val is the identifier together with the playlist cache as the call leaves it
GetSpotifyPlaylistId(spotifyUserId, name, cache, st) ==
    LET lname == ToLower(name)
        finish(id, st1) ==
            IF Failed(st1) THEN Ret("Fatal", [id |-> NoId, cache |-> cache], st1)
            ELSE IF id # NoId
                 THEN Ret("ok", [id |-> id, cache |-> MapPut(cache, lname, id)], st1)
                 ELSE Ret("Fatal", [id |-> NoId, cache |-> cache], st1)
    IN  IF name \in DOMAIN cache
        THEN Ret("ok", [id |-> cache[name], cache |-> cache], st)
        ELSE finish(findPlaylist(UserPlaylists, lname),
                    Request(st, "GetPlaylistsForUser", spotifyUserId, 0))

\* Client.GetPlaylistTracksOpt(userId, playlistId, {offset, limit})
PlaylistPage(playlistId, off, limit) ==
    LET all == IF playlistId = "p1" THEN playlist ELSE <<>>
    IN  SubSeq(all, off + 1, Min(Len(all), off + limit))

RECURSIVE playlistPages(_, _, _, _)
playlistPages(playlistId, off, tracks, st) ==
    LET st1 == Request(st, "GetPlaylistTracksOpt", playlistId, off)
        page == PlaylistPage(playlistId, off, SpotifyReadBatchSize)
    IN  IF Failed(st1) THEN Ret("Fatal", <<>>, st1)
        ELSE IF Len(page) = 0 THEN Ret("ok", tracks, st1)
        ELSE playlistPages(playlistId, off + Len(page), tracks \o page, st1)

\* a read of the first page only
ReadSpotifyPlaylistOnePage(playlistId, spotifyUserId, st) ==
    LET first(st1) ==
            IF Failed(st1) THEN Ret("Fatal", <<>>, st1)
            ELSE Ret("ok", PlaylistPage(playlistId, 0, SpotifyReadBatchSize), st1)
    IN  first(Request(st, "GetPlaylistTracksOpt", playlistId, 0))

ReadSpotifyPlaylist(playlistId, spotifyUserId, st) ==
    playlistPages(playlistId, 0, <<>>, st)

buildSpotifyIndex(index, tracks) ==
    index \cup {tracks[k] : k \in 1..Len(tracks)}

\* the result carries the cache fields and the index as the call leaves them
preloadExisting(spotifyPlaylistName, st) ==
    LET out(kind, uid, cache, index, s) ==
            [kind |-> kind, userId |-> uid, playlistCache |-> cache,
             spotifyIndex |-> index, st |-> s]
        withTracks(u, p, t) ==
            IF t.kind # "ok" THEN out("Fatal", u.val, p.val.cache, spotifyIndex, t.st)
            ELSE out("ok", u.val, p.val.cache,
                     buildSpotifyIndex(spotifyIndex, t.val), t.st)
        withPlaylist(u, p) ==
            IF p.kind # "ok" THEN out("Fatal", u.val, p.val.cache, spotifyIndex, p.st)
            ELSE withTracks(u, p, ReadSpotifyPlaylist(p.val.id, u.val, p.st))
        withUser(u) ==
            IF u.kind # "ok" THEN out("Fatal", userId, playlistCache, spotifyIndex, u.st)
            ELSE withPlaylist(u, GetSpotifyPlaylistId(u.val, spotifyPlaylistName,
                                                      playlistCache, u.st))
    IN  withUser(GetSpotifyCurrentUserId(userId, st))

-----------------------------------------------------------------------------
(* Importer.importBatch *)

\* AuthenticatedMemberClient.GetFavoriteTracks(offset, limit), followed by
\* MetadataClient.GetTrackDetail for the tracks of the page
FavoritePage(off, limit) ==
    SubSeq(favorites, off + 1, Min(Len(favorites), off + limit))

\* a normalisation that keeps the letter case
getNapsterNormalizedTrackAsIs(track) ==
    [ArtistNames |-> <<track.ArtistName>>,
     AlbumName |-> track.AlbumName,
     TrackName |-> track.Name]

getNapsterNormalizedTrack(track) ==
    [ArtistNames |-> <<ToLower(track.ArtistName)>>,
     AlbumName |-> ToLower(track.AlbumName),
     TrackName |-> ToLower(track.Name)]

\* a filter that lets every artist pass
isAllowedAlways(artistNames, allowed) == TRUE

\* one of the artists of the track is in the allow-list
isAllowed(artistNames, allowed) ==
    \E a \in 1..Len(artistNames), k \in 1..Len(allowed) : allowed[k] = artistNames[a]

\* an index test that never finds the track
inSpotifyIndexNever(index, spotifyTrackId) == FALSE

inSpotifyIndex(index, spotifyTrackId) == spotifyTrackId \in index

\* log.Is(err, e): the error the resolver returned is the error e
Is(err, e) == err = e

\* one iteration of the loop over the tracks of the page; b holds the
\* locals and the fields the loop updates, pos is the position of the track
\* among the favorites
importTrack(track, pos, allowed, b) ==
    LET note(err, outcome, id, st) ==
            [pos |-> pos, err |-> err, outcome |-> outcome, id |-> id,
             n0 |-> Len(b.st.reqs), n1 |-> Len(st.reqs), reqFailed |-> Failed(st)]
        entry(outcome, id, st) == note("none", outcome, id, st)
        lookup(artistName, albumName, trackName, r) ==
            IF Is(r.kind, "ArtistNotFound")
            THEN [b EXCEPT !.st = r.st,
                           !.missing = IF artistName \notin b.missingArtists
                                       THEN Append(@, <<artistName>>) ELSE @,
                           !.missingArtists = @ \cup {artistName},
                           !.trace = Append(@, note(r.kind, "ArtistNotFound", NoId, r.st))]
            ELSE IF Is(r.kind, "AlbumNotFound")
            THEN [b EXCEPT !.st = r.st,
                           !.missing = IF <<artistName, albumName>> \notin b.missingAlbums
                                       THEN Append(@, <<artistName, albumName>>) ELSE @,
                           !.missingAlbums = @ \cup {<<artistName, albumName>>},
                           !.trace = Append(@, note(r.kind, "AlbumNotFound", NoId, r.st))]
            ELSE IF Is(r.kind, "TrackNotFound")
            THEN [b EXCEPT !.st = r.st,
                           !.missing = Append(@, <<artistName, albumName, trackName>>),
                           !.trace = Append(@, note(r.kind, "TrackNotFound", NoId, r.st))]
            ELSE IF r.kind # "ok"
            THEN [b EXCEPT !.st = r.st, !.kind = "Fatal",
                           !.trace = Append(@, note(r.kind, "Fatal", NoId, r.st))]
            ELSE IF inSpotifyIndex(spotifyIndex, r.val)
            THEN [b EXCEPT !.st = r.st,
                           !.trace = Append(@, note(r.kind, "inPlaylist", r.val, r.st))]
            ELSE [b EXCEPT !.st = r.st,
                           !.idList = Append(@, r.val),
                           !.trace = Append(@, note(r.kind, "willAdd", r.val, r.st))]
        allowedTrack(artistName, albumName, trackName) ==
            IF artistName \in b.missingArtists
            THEN [b EXCEPT !.trace = Append(@, entry("missedArtist", NoId, b.st))]
            ELSE IF <<artistName, albumName>> \in b.missingAlbums
            THEN [b EXCEPT !.trace = Append(@, entry("missedAlbum", NoId, b.st))]
            ELSE lookup(artistName, albumName, trackName,
                        GetSpotifyTrackIdWithNames(artistName, albumName, trackName, b.st))
        normalized(nt) ==
            IF ~isAllowed(nt.ArtistNames, allowed)
            THEN [b EXCEPT !.skipped = @ + 1,
                           !.artistNotices =
                               @ \cup {nt.ArtistNames[k] : k \in 1..Len(nt.ArtistNames)},
                           !.trace = Append(@, entry("skipped", NoId, b.st))]
            ELSE allowedTrack(ToLower(nt.ArtistNames[1]), ToLower(nt.AlbumName),
                              nt.TrackName)
    IN  normalized(getNapsterNormalizedTrack(track))

RECURSIVE importTracks(_, _, _, _)
importTracks(tracks, pos, allowed, b) ==
    IF tracks = <<>> \/ b.kind # "ok" THEN b
    ELSE importTracks(Tail(tracks), pos + 1, allowed,
                      importTrack(Head(tracks), pos, allowed, b))

\* a batch that does not look at the length of the allow-list
importBatchAnyList(allowed, collectorIdList, missingIn, st) ==
    LET b0 == [kind |-> "ok", count |-> 0, skipped |-> 0, missing |-> missingIn,
               idList |-> collectorIdList, artistNotices |-> artistNotices,
               missingArtists |-> {}, missingAlbums |-> {}, trace |-> trace,
               st |-> st]
        detail(trackInfo, st2) ==
            IF Failed(st2) THEN [b0 EXCEPT !.kind = "Fatal", !.st = st2]
            ELSE [importTracks(trackInfo, offset + 1, allowed, [b0 EXCEPT !.st = st2])
                     EXCEPT !.count = Len(trackInfo)]
        fetched(trackInfo, st1) ==
            IF Failed(st1) THEN [b0 EXCEPT !.kind = "Fatal", !.st = st1]
            ELSE IF Len(trackInfo) = 0 THEN [b0 EXCEPT !.st = st1]
            ELSE detail(trackInfo, Request(st1, "GetTrackDetail", NoId, offset))
    IN  fetched(FavoritePage(offset, napsterBatchSize),
                Request(st, "GetFavoriteTracks", NoId, offset))

importBatch(allowed, collectorIdList, missingIn, st) ==
    LET b0 == [kind |-> "ok", count |-> 0, skipped |-> 0, missing |-> missingIn,
               idList |-> collectorIdList, artistNotices |-> artistNotices,
               missingArtists |-> {}, missingAlbums |-> {}, trace |-> trace,
               st |-> st]
        detail(trackInfo, st2) ==
            IF Failed(st2) THEN [b0 EXCEPT !.kind = "Fatal", !.st = st2]
            ELSE [importTracks(trackInfo, offset + 1, allowed, [b0 EXCEPT !.st = st2])
                     EXCEPT !.count = Len(trackInfo)]
        fetched(trackInfo, st1) ==
            IF Failed(st1) THEN [b0 EXCEPT !.kind = "Fatal", !.st = st1]
            ELSE IF Len(trackInfo) = 0 THEN [b0 EXCEPT !.st = st1]
            ELSE detail(trackInfo, Request(st1, "GetTrackDetail", NoId, offset))
    IN  IF Len(allowed) = 0 THEN [b0 EXCEPT !.kind = "Fatal"]
        ELSE fetched(FavoritePage(offset, napsterBatchSize),
                     Request(st, "GetFavoriteTracks", NoId, offset))

-----------------------------------------------------------------------------
(* Importer.GetTracksToAdd and main, one action per step of a run *)

\* the byte value of a character, the order of sort.StringSlice
Ord(c) ==
    CASE c = " " -> 32 [] c = "!" -> 33 [] c = "'" -> 39 [] c = "(" -> 40
      [] c = ")" -> 41 [] c = "-" -> 45 [] c = "1" -> 49
      [] c = "Q" -> 81 [] c = "V" -> 86 [] c = "W" -> 87 [] c = "X" -> 88
      [] c = "Y" -> 89 [] c = "Z" -> 90 [] c = "[" -> 91 [] c = "]" -> 93
      [] c = "q" -> 113 [] c = "v" -> 118 [] c = "w" -> 119 [] c = "x" -> 120
      [] c = "y" -> 121 [] c = "z" -> 122

RECURSIVE StrLess(_, _)
StrLess(a, b) ==
    IF b = <<>> THEN FALSE
    ELSE IF a = <<>> THEN TRUE
    ELSE IF Head(a) # Head(b) THEN Ord(Head(a)) < Ord(Head(b))
    ELSE StrLess(Tail(a), Tail(b))

\* the keys of artistNotices, the largest first
RECURSIVE sortedNoticesDescending(_)
sortedNoticesDescending(notices) ==
    IF notices = {} THEN <<>>
    ELSE LET m == CHOOSE x \in notices : \A y \in notices \ {x} : StrLess(y, x)
         IN  <<m>> \o sortedNoticesDescending(notices \ {m})

\* the keys of artistNotices, sorted
RECURSIVE sortedNotices(_)
sortedNotices(notices) ==
    IF notices = {} THEN <<>>
    ELSE LET m == CHOOSE x \in notices : \A y \in notices \ {x} : StrLess(x, y)
         IN  <<m>> \o sortedNotices(notices \ {m})

\* the result as main receives it: a map keyed by track identifier
resultKeys(list) == {list[k] : k \in 1..Len(list)}

\* main's flushCb: one add-tracks request with the given identifiers
flushCb(list, st) ==
    LET st1 == Request(st, "AddTracksToPlaylist", "p1", Len(list))
    IN  IF Failed(st1) THEN Ret("Fatal", list, st1) ELSE Ret("ok", list, st1)

\* a loop that may visit a key again
rangeRestAll(keys, id) == keys

\* the keys the range loop has still to visit after it visited id
rangeRest(keys, id) == keys \ {id}

Fav(artist, album, name) ==
    [ArtistName |-> artist, AlbumName |-> album, Name |-> name]

\* favorites: two spellings of the track t1, the track t3, the track t2 that
\* is in the playlist, a track of an artist outside the allow-list, two tracks
\* of an artist the destination does not have, an album and a track it does
\* not have
FavoriteTracks ==
    {Fav(nX, nY, nZ), Fav(nx, ny, nz), Fav(nX, nY, nW), Fav(nX, nY, nV), Fav(nW, nY, nZ),
     Fav(nV, nY, nZ), Fav(nV, nQ, nZ), Fav(nX, nQ, nZ), Fav(nX, nY, nQ)}

FavoriteLists ==
    UNION {{s \in [1..n -> FavoriteTracks] : \A a, b \in 1..n : a # b => s[a] # s[b]}
           : n \in 0..MaxFav}

\* the caller's options: allow-list, playlist name, no-changes flag
Options ==
    {[OnlyArtists |-> <<nX, nV>>, SpotifyPlaylistName |-> nq, NoChanges |-> FALSE],
     [OnlyArtists |-> <<nX>>, SpotifyPlaylistName |-> nQ, NoChanges |-> TRUE],
     [OnlyArtists |-> <<>>, SpotifyPlaylistName |-> nq, NoChanges |-> FALSE],
     [OnlyArtists |-> <<nX>>, SpotifyPlaylistName |-> nv, NoChanges |-> FALSE]}

Init ==
    /\ catalog \in {CatPlain, CatEmpty}
    /\ emptyAlbumResp \in {"error", "empty"}
    /\ allowCache = TRUE
    /\ cachedArtists = <<>>
    /\ cachedAlbums = <<>>
    /\ cachedTracks = <<>>
    /\ reqs = <<>>
    /\ calls = <<>>
    /\ pc = "start"
    /\ favorites \in FavoriteLists
    /\ \E o \in Options :
          /\ onlyArtists = o.OnlyArtists
          /\ playlistName = o.SpotifyPlaylistName
          /\ noChanges = o.NoChanges
    /\ userId = ""
    /\ playlistCache = <<>>
    /\ playlist = <<"t2">>
    /\ spotifyIndex = {}
    /\ artistNotices = {}
    /\ offset = 0
    /\ idList = <<>>
    /\ missing = <<>>
    /\ skipped = 0
    /\ trace = <<>>
    /\ runErr = "none"
    /\ ignoredArtists = <<>>
    /\ ids = {}
    /\ pending = {}
    /\ batchIdList = <<>>
    /\ batchJ = 0
    /\ addCalls = <<>>
    /\ handlers = <<>>
    /\ spotifyAuth = SessionCredential
    /\ exitStatus = "running"

Abort ==
    /\ pc' = "failed"
    /\ runErr' = "Fatal"

\* GetTracksToAdd up to its loop: the allow-list is lower-cased in place and
\* the existing playlist is indexed
GetTracksToAddStart(f) ==
    /\ pc = "start"
    /\ onlyArtists' = [k \in 1..Len(onlyArtists) |-> ToLower(onlyArtists[k])]
    /\ LET done(r) ==
               /\ SetSt(r.st)
               /\ userId' = r.userId
               /\ playlistCache' = r.playlistCache
               /\ spotifyIndex' = r.spotifyIndex
               /\ IF r.kind = "ok"
                  THEN pc' = "fetch" /\ UNCHANGED runErr
                  ELSE Abort
       IN  done(preloadExisting(playlistName, St(f)))
    /\ UNCHANGED <<envVars, calls, playlist, artistNotices, offset, idList, missing,
                   skipped, trace, ignoredArtists, ids, pending, batchIdList,
                   batchJ, addCalls>>
    /\ UNCHANGED processVars

\* an offset that advances by the page size whatever was received
nextOffsetByBatchSize(off, added) == off + napsterBatchSize

\* i.offset += added
nextOffset(off, added) == off + added

\* one iteration of the loop of GetTracksToAdd
ImportBatch(f) ==
    /\ pc = "fetch"
    /\ LET done(r) ==
               /\ SetSt(r.st)
               /\ idList' = r.idList
               /\ artistNotices' = r.artistNotices
               /\ trace' = r.trace
               /\ IF r.kind # "ok"
                  THEN Abort /\ UNCHANGED <<missing, skipped, offset>>
                  ELSE /\ missing' = r.missing
                       /\ skipped' = skipped + r.skipped
                       /\ UNCHANGED runErr
                       /\ IF r.count = 0
                          THEN pc' = "summary" /\ UNCHANGED offset
                          ELSE pc' = "fetch" /\ offset' = nextOffset(offset, r.count)
       IN  done(importBatch(onlyArtists, idList, missing, St(f)))
    /\ UNCHANGED <<envVars, calls, onlyArtists, userId, playlistCache, playlist,
                   spotifyIndex, ignoredArtists, ids, pending, batchIdList,
                   batchJ, addCalls>>
    /\ UNCHANGED processVars

\* GetTracksToAdd after its loop: the ignored artists are logged in sorted
\* order and the collected identifiers are returned
GetTracksToAddReturn ==
    /\ pc = "summary"
    /\ ignoredArtists' = sortedNotices(artistNotices)
    /\ ids' = resultKeys(idList)
    /\ pc' = "main"
    /\ UNCHANGED <<envVars, resolverVars, calls, onlyArtists, userId, playlistCache,
                   playlist, spotifyIndex, artistNotices, offset, idList, missing,
                   skipped, trace, runErr, pending, batchIdList, batchJ, addCalls>>
    /\ UNCHANGED processVars

\* a test that looks at the length of the result only
nothingToAddIfEmpty(len_, noChangesFlag) == len_ = 0

\* len_ == 0, or o.NoChanges == true: main adds nothing
nothingToAdd(len_, noChangesFlag) == len_ = 0 \/ noChangesFlag = TRUE

\* main between the return of GetTracksToAdd and the range loop
MainStart(f) ==
    /\ pc = "main"
    /\ LET withPlaylist(u, p) ==
               /\ SetSt(p.st)
               /\ userId' = u.val
               /\ playlistCache' = p.val.cache
               /\ IF p.kind # "ok"
                  THEN Abort /\ UNCHANGED <<pending, batchIdList, batchJ>>
                  ELSE /\ pc' = "adding"
                       /\ pending' = ids
                       /\ batchIdList' = [k \in 1..spotifyBatchSize |-> NoId]
                       /\ batchJ' = 0
                       /\ UNCHANGED runErr
           withUser(u) ==
               IF u.kind # "ok"
               THEN /\ SetSt(u.st)
                    /\ Abort
                    /\ UNCHANGED <<userId, playlistCache, pending, batchIdList, batchJ>>
               ELSE withPlaylist(u, GetSpotifyPlaylistId(u.val, playlistName,
                                                         playlistCache, u.st))
       IN  IF nothingToAdd(Cardinality(ids), noChanges)
           THEN /\ pc' = "done"
                /\ UNCHANGED <<resolverVars, userId, playlistCache, runErr, pending,
                               batchIdList, batchJ>>
           ELSE withUser(GetSpotifyCurrentUserId(userId, St(f)))
    /\ UNCHANGED <<envVars, calls, onlyArtists, playlist, spotifyIndex, artistNotices,
                   offset, idList, missing, skipped, trace, ignoredArtists, ids,
                   addCalls>>
    /\ UNCHANGED processVars

\* a test that takes every batch for a full one
batchFullAlways(j) == TRUE

\* j >= spotifyBatchSize: the batch is full
batchFull(j) == j >= spotifyBatchSize

\* one iteration of the range loop over the result
MainRange(f) ==
    /\ pc = "adding"
    /\ \E id \in pending :
          LET batch == [batchIdList EXCEPT ![batchJ + 1] = id]
              r == flushCb(batch, St(f))
          IN  /\ batchIdList' = batch
              /\ pending' = rangeRest(pending, id)
              /\ IF batchFull(batchJ + 1)
                 THEN /\ SetSt(r.st)
                      /\ addCalls' = Append(addCalls, batch)
                      /\ IF r.kind = "ok"
                         THEN /\ batchJ' = 0
                              /\ playlist' = playlist \o batch
                              /\ UNCHANGED <<pc, runErr>>
                         ELSE /\ Abort
                              /\ batchJ' = batchJ + 1
                              /\ UNCHANGED playlist
                 ELSE /\ batchJ' = batchJ + 1
                      /\ UNCHANGED <<resolverVars, addCalls, playlist, pc, runErr>>
    /\ UNCHANGED <<envVars, calls, onlyArtists, userId, playlistCache, spotifyIndex,
                   artistNotices, offset, idList, missing, skipped, trace,
                   ignoredArtists, ids>>
    /\ UNCHANGED processVars

\* main after the range loop: the identifiers left over are added
MainFlushRest(f) ==
    /\ pc = "adding"
    /\ pending = {}
    /\ IF batchJ > 0
       THEN LET batch == SubSeq(batchIdList, 1, batchJ)
                r == flushCb(batch, St(f))
            IN  /\ SetSt(r.st)
                /\ addCalls' = Append(addCalls, batch)
                /\ IF r.kind = "ok"
                   THEN /\ pc' = "done"
                        /\ playlist' = playlist \o batch
                        /\ UNCHANGED runErr
                   ELSE Abort /\ UNCHANGED playlist
       ELSE /\ pc' = "done"
            /\ UNCHANGED <<resolverVars, addCalls, playlist, runErr>>
    /\ UNCHANGED <<envVars, calls, onlyArtists, userId, playlistCache, spotifyIndex,
                   artistNotices, offset, idList, missing, skipped, trace,
                   ignoredArtists, ids, pending, batchIdList, batchJ>>
    /\ UNCHANGED processVars

Next ==
    \/ \E f \in 0..MaxFail : GetTracksToAddStart(f)
    \/ \E f \in 0..MaxFail : ImportBatch(f)
    \/ GetTracksToAddReturn
    \/ \E f \in 0..MaxFail : MainStart(f)
    \/ \E f \in 0..MaxFail : MainRange(f)
    \/ \E f \in 0..MaxFail : MainFlushRest(f)

Spec == Init /\ [][Next]_vars

-----------------------------------------------------------------------------
(* Whole runs against an album with more new tracks than one add-call takes *)

\* artist X with album Y holding the tracks Z, V, W, Q and X
CatFiveTracks ==
    [artistPages |-> << <<Ent(nX, "a1"), Ent(nW, "a2")>> >>,
     albums |-> ("a1" :> <<Ent(nY, "b1")>>) @@ ("a2" :> <<>>),
     tracks |-> ("b1" :> <<Ent(nZ, "t1"), Ent(nV, "t2"), Ent(nW, "t3"),
                           Ent(nQ, "t4"), Ent(nX, "t5")>>)]

LongFavoriteLists ==
    {<<>>,
     <<Fav(nX, nY, nQ)>>,
     <<Fav(nX, nY, nZ), Fav(nX, nY, nW)>>,
     <<Fav(nX, nY, nZ), Fav(nX, nY, nV), Fav(nX, nY, nW)>>,
     <<Fav(nX, nY, nZ), Fav(nX, nY, nW), Fav(nX, nY, nQ)>>,
     <<Fav(nX, nY, nZ), Fav(nX, nY, nW), Fav(nX, nY, nQ), Fav(nX, nY, nX)>>,
     <<Fav(nW, nY, nZ), Fav(nX, nY, nQ), Fav(nX, nY, nW), Fav(nX, nY, nZ)>>}

InitLongRun ==
    /\ catalog = CatFiveTracks
    /\ emptyAlbumResp = "error"
    /\ allowCache = TRUE
    /\ cachedArtists = <<>>
    /\ cachedAlbums = <<>>
    /\ cachedTracks = <<>>
    /\ reqs = <<>>
    /\ calls = <<>>
    /\ pc = "start"
    /\ favorites \in LongFavoriteLists
    /\ \E o \in Options :
          /\ onlyArtists = o.OnlyArtists
          /\ playlistName = o.SpotifyPlaylistName
          /\ noChanges = o.NoChanges
    /\ userId = ""
    /\ playlistCache = <<>>
    /\ playlist = <<"t2">>
    /\ spotifyIndex = {}
    /\ artistNotices = {}
    /\ offset = 0
    /\ idList = <<>>
    /\ missing = <<>>
    /\ skipped = 0
    /\ trace = <<>>
    /\ runErr = "none"
    /\ ignoredArtists = <<>>
    /\ ids = {}
    /\ pending = {}
    /\ batchIdList = <<>>
    /\ batchJ = 0
    /\ addCalls = <<>>
    /\ handlers = <<>>
    /\ spotifyAuth = SessionCredential
    /\ exitStatus = "running"

SpecLongRun == InitLongRun /\ [][Next]_vars

-----------------------------------------------------------------------------
(* Whole runs in which any request of a batch may fail, the later ones of   *)
(* a resolution included                                                    *)

MaxDeepFail == 7

FailureFavoriteLists ==
    {<<>>,
     <<Fav(nX, nY, nZ)>>,
     <<Fav(nX, nQ, nZ)>>,
     <<Fav(nV, nY, nZ), Fav(nX, nY, nW)>>,
     <<Fav(nX, nQ, nZ), Fav(nX, nY, nV), Fav(nX, nY, nZ)>>}

InitFailures ==
    /\ catalog = CatPlain
    /\ emptyAlbumResp \in {"error", "empty"}
    /\ allowCache = TRUE
    /\ cachedArtists = <<>>
    /\ cachedAlbums = <<>>
    /\ cachedTracks = <<>>
    /\ reqs = <<>>
    /\ calls = <<>>
    /\ pc = "start"
    /\ favorites \in FailureFavoriteLists
    /\ onlyArtists = <<nX, nV>>
    /\ playlistName = nq
    /\ noChanges = FALSE
    /\ userId = ""
    /\ playlistCache = <<>>
    /\ playlist = <<"t2">>
    /\ spotifyIndex = {}
    /\ artistNotices = {}
    /\ offset = 0
    /\ idList = <<>>
    /\ missing = <<>>
    /\ skipped = 0
    /\ trace = <<>>
    /\ runErr = "none"
    /\ ignoredArtists = <<>>
    /\ ids = {}
    /\ pending = {}
    /\ batchIdList = <<>>
    /\ batchJ = 0
    /\ addCalls = <<>>
    /\ handlers = <<>>
    /\ spotifyAuth = SessionCredential
    /\ exitStatus = "running"

NextFailures ==
    \/ \E f \in 0..MaxDeepFail : GetTracksToAddStart(f)
    \/ \E f \in 0..MaxDeepFail : ImportBatch(f)
    \/ GetTracksToAddReturn
    \/ \E f \in 0..MaxDeepFail : MainStart(f)
    \/ \E f \in 0..MaxDeepFail : MainRange(f)
    \/ \E f \in 0..MaxDeepFail : MainFlushRest(f)

SpecFailures == InitFailures /\ [][NextFailures]_vars

-----------------------------------------------------------------------------
(* The program run twice on the same inputs, once with and once without     *)
(* the no-changes option                                                    *)

\* the requests of the fetch loop and of the resolutions
ResolutionOps ==
    {"GetFavoriteTracks", "GetTrackDetail", "Search", "NextArtistResults",
     "GetArtistAlbumsOpt", "GetAlbumTracks", "GetAlbumTracksOpt"}

IsResolutionRequest(r) == r.op \in ResolutionOps

\* what a finished run has fetched, resolved, returned and reported
RunRecord ==
    [op |-> "run", noChanges |-> noChanges,
     clean |-> \A k \in 1..Len(reqs) : ~reqs[k].failed,
     fetches |-> SelectSeq(reqs, IsResolutionRequest),
     ids |-> ids, idList |-> idList, missing |-> missing, skipped |-> skipped,
     ignoredArtists |-> ignoredArtists, trace |-> trace,
     addCalls |-> addCalls]

InitDryRun ==
    /\ catalog = CatFiveTracks
    /\ emptyAlbumResp = "error"
    /\ allowCache = TRUE
    /\ cachedArtists = <<>>
    /\ cachedAlbums = <<>>
    /\ cachedTracks = <<>>
    /\ reqs = <<>>
    /\ calls = <<>>
    /\ pc = "start"
    /\ favorites \in LongFavoriteLists
    /\ onlyArtists = <<nX, nV>>
    /\ playlistName \in {nq, nQ}
    /\ noChanges \in BOOLEAN
    /\ userId = ""
    /\ playlistCache = <<>>
    /\ playlist = <<"t2">>
    /\ spotifyIndex = {}
    /\ artistNotices = {}
    /\ offset = 0
    /\ idList = <<>>
    /\ missing = <<>>
    /\ skipped = 0
    /\ trace = <<>>
    /\ runErr = "none"
    /\ ignoredArtists = <<>>
    /\ ids = {}
    /\ pending = {}
    /\ batchIdList = <<>>
    /\ batchJ = 0
    /\ addCalls = <<>>
    /\ handlers = <<>>
    /\ spotifyAuth = SessionCredential
    /\ exitStatus = "running"

\* the finished run is recorded and the program is started again, against
\* the playlist as it was and with the no-changes option the other way
RunAgain ==
    /\ pc = "done"
    /\ calls = <<>>
    /\ calls' = <<RunRecord>>
    /\ noChanges' = ~noChanges
    /\ pc' = "start"
    /\ cachedArtists' = <<>>
    /\ cachedAlbums' = <<>>
    /\ cachedTracks' = <<>>
    /\ reqs' = <<>>
    /\ userId' = ""
    /\ playlistCache' = <<>>
    /\ playlist' = <<"t2">>
    /\ spotifyIndex' = {}
    /\ artistNotices' = {}
    /\ offset' = 0
    /\ idList' = <<>>
    /\ missing' = <<>>
    /\ skipped' = 0
    /\ trace' = <<>>
    /\ ignoredArtists' = <<>>
    /\ ids' = {}
    /\ pending' = {}
    /\ batchIdList' = <<>>
    /\ batchJ' = 0
    /\ addCalls' = <<>>
    /\ UNCHANGED <<catalog, emptyAlbumResp, allowCache, favorites, onlyArtists,
                   playlistName, runErr>>
    /\ UNCHANGED processVars

NextDryRun ==
    \/ Next
    \/ RunAgain

SpecDryRun == InitDryRun /\ [][NextDryRun]_vars

-----------------------------------------------------------------------------
(* The process: flag parsing, the authorization handshake that runs beside  *)
(* main, the run, and the exit                                              *)

MaxCallbacks == 2

NoCredential == ""

\* the credential the k-th invocation of handleResponse builds
CredentialNames == <<"s1", "s2", "s3", "s4">>
Credential(k) == CredentialNames[k]

\* what the authorization callback carries: no code, a code the token
\* exchange accepts, a code it rejects
CallbackCodes == {"", "good", "bad"}

\* a main that takes a credential from the channel wherever it is
receivingAlways(p) == TRUE

\* spotifyAuth := <-authC: main is at its only receive
receiving(p) == p = "auth"

InitProcess ==
    /\ catalog = CatFiveTracks
    /\ emptyAlbumResp = "error"
    /\ allowCache = TRUE
    /\ cachedArtists = <<>>
    /\ cachedAlbums = <<>>
    /\ cachedTracks = <<>>
    /\ reqs = <<>>
    /\ calls = <<>>
    /\ pc = "flags"
    /\ favorites \in {<<>>, <<Fav(nX, nY, nZ), Fav(nW, nY, nZ), Fav(nX, nY, nW)>>}
    /\ onlyArtists = <<nX>>
    /\ playlistName \in {nq, nv}
    /\ noChanges = FALSE
    /\ userId = ""
    /\ playlistCache = <<>>
    /\ playlist = <<"t2">>
    /\ spotifyIndex = {}
    /\ artistNotices = {}
    /\ offset = 0
    /\ idList = <<>>
    /\ missing = <<>>
    /\ skipped = 0
    /\ trace = <<>>
    /\ runErr = "none"
    /\ ignoredArtists = <<>>
    /\ ids = {}
    /\ pending = {}
    /\ batchIdList = <<>>
    /\ batchJ = 0
    /\ addCalls = <<>>
    /\ handlers = <<>>
    /\ spotifyAuth = NoCredential
    /\ exitStatus = "running"

pipelineVars == <<catalog, emptyAlbumResp, allowCache, cachedArtists, cachedAlbums,
                  cachedTracks, reqs, calls, favorites, onlyArtists, playlistName,
                  noChanges, userId, playlistCache, playlist, spotifyIndex,
                  artistNotices, offset, idList, missing, skipped, trace, runErr,
                  ignoredArtists, ids, pending, batchIdList, batchJ, addCalls>>

\* flags.Parse: on failure the process exits with status 1; otherwise main
\* starts the authorizer and waits at the channel
ParseFlags ==
    /\ pc = "flags"
    /\ exitStatus = "running"
    /\ \E ok \in BOOLEAN :
          IF ok THEN pc' = "auth" /\ UNCHANGED exitStatus
          ELSE pc' = "exited" /\ exitStatus' = "1"
    /\ UNCHANGED <<pipelineVars, handlers, spotifyAuth>>

\* Authorize returns an error (the browser or the web server could not be
\* started): the goroutine panics and nothing recovers it
AuthorizeFails ==
    /\ pc = "auth"
    /\ exitStatus = "running"
    /\ handlers = <<>>
    /\ pc' = "crashed"
    /\ exitStatus' = "2"
    /\ UNCHANGED <<pipelineVars, handlers, spotifyAuth>>

\* handleResponse up to its send: without a code or without a token the
\* handler panics, otherwise it stands at sa.authC <- sc
HandleResponse ==
    /\ pc \notin {"flags", "exited", "crashed"}
    /\ exitStatus = "running"
    /\ Len(handlers) < MaxCallbacks
    /\ \E code \in CallbackCodes :
          handlers' = Append(handlers,
              [code |-> code,
               state |-> IF code = "good" THEN "sending" ELSE "panicked"])
    /\ UNCHANGED <<pipelineVars, pc, spotifyAuth, exitStatus>>

\* the unbuffered channel: a handler at its send and main at its receive
\* complete together
HandOff ==
    /\ exitStatus = "running"
    /\ receiving(pc)
    /\ \E h \in 1..Len(handlers) :
          /\ handlers[h].state = "sending"
          /\ handlers' = [handlers EXCEPT ![h].state = "done"]
          /\ spotifyAuth' = Credential(h)
    /\ pc' = "start"
    /\ UNCHANGED <<pipelineVars, exitStatus>>

\* main returns, after its deferred function has logged a recovered error
MainReturn ==
    /\ pc \in {"done", "failed"}
    /\ exitStatus = "running"
    /\ exitStatus' = "0"
    /\ UNCHANGED <<pipelineVars, pc, handlers, spotifyAuth>>

NextProcess ==
    \/ ParseFlags
    \/ AuthorizeFails
    \/ HandleResponse
    \/ HandOff
    \/ \E f \in 0..MaxFail : GetTracksToAddStart(f)
    \/ \E f \in 0..MaxFail : ImportBatch(f)
    \/ GetTracksToAddReturn
    \/ \E f \in 0..MaxFail : MainStart(f)
    \/ \E f \in 0..MaxFail : MainRange(f)
    \/ \E f \in 0..MaxFail : MainFlushRest(f)
    \/ MainReturn

SpecProcess == InitProcess /\ [][NextProcess]_vars

\* the process under a scheduler that runs every goroutine that can run: a
\* send and a receive that can complete do, and main goes on until it
\* returns. The arrival of a callback is left to the browser. The two steps
\* of GetTracksToAdd are enabled exactly when pc is at them, and their weak
\* fairness is written with that condition in place of ENABLED.
SpecProcessScheduled ==
    /\ InitProcess
    /\ [][NextProcess]_vars
    /\ WF_vars(ParseFlags)
    /\ WF_vars(HandOff)
    /\ []<>(pc # "start") \/ []<><<\E f \in 0..MaxFail : GetTracksToAddStart(f)>>_vars
    /\ []<>(pc # "fetch") \/ []<><<\E f \in 0..MaxFail : ImportBatch(f)>>_vars
    /\ WF_vars(GetTracksToAddReturn)
    /\ WF_vars(\E f \in 0..MaxFail : MainStart(f))
    /\ WF_vars(\E f \in 0..MaxFail : MainRange(f))
    /\ WF_vars(\E f \in 0..MaxFail : MainFlushRest(f))
    /\ WF_vars(MainReturn)

-----------------------------------------------------------------------------
(* The title functions on their own: normalizeTitle, simplifyTitle and      *)
(* isEqual applied to the texts of a bounded set                            *)

TitleChars == {"x", "X", " ", "(", ")", "!"}

\* texts longer than the exhaustive ones, with both kinds of clauses
LongTitles ==
    {<<"x", " ", "(", "y", ")">>, <<"x", " ", "y", " ", "(", "z", ")">>,
     <<"x", " ", "[", "y", "]">>, <<"x", " ", "(", "y", ")", " ", "[", "z", "]">>,
     <<"X", " ", " ", "(", "Y", ")", " ">>, <<"x", "'", "1", "-", "y">>,
     <<"X", "!">>, <<"x", "(", "y", ")">>}

Titles == UNION {[1..n -> TitleChars] : n \in 0..MaxTitleLen} \cup LongTitles

\* what the second title of a comparison adds to the first
Suffixes ==
    {<<>>, <<" ", "(", "y", ")">>, <<"(", "y", ")">>, <<" ", "[", "y", "]">>,
     <<"!">>, <<" ", "z">>}

TitleCall(op, arg1, arg2, liberal, res) ==
    [op |-> op, arg1 |-> arg1, arg2 |-> arg2, liberal |-> liberal, res |-> res]

InitTitles ==
    /\ InitEnv
    /\ catalog = CatPlain
    /\ emptyAlbumResp = "error"
    /\ pc = "titles"
    /\ InitIdleDriver

CallNormalizeTitle ==
    /\ pc = "titles"
    /\ calls = <<>>
    /\ \E arg \in Titles :
          calls' = <<TitleCall("normalizeTitle", arg, <<>>, FALSE, normalizeTitle(arg))>>
    /\ UNCHANGED <<envVars, resolverVars, pc, driverVars>>
    /\ UNCHANGED processVars

\* normalizeTitle applied to what normalizeTitle returned
CallNormalizeTitleAgain ==
    /\ pc = "titles"
    /\ Len(calls) = 1
    /\ calls[1].op = "normalizeTitle"
    /\ calls' = Append(calls, TitleCall("normalizeTitle", calls[1].res, <<>>, FALSE,
                                        normalizeTitle(calls[1].res)))
    /\ UNCHANGED <<envVars, resolverVars, pc, driverVars>>
    /\ UNCHANGED processVars

CallSimplifyTitle ==
    /\ pc = "titles"
    /\ calls = <<>>
    /\ \E arg \in Titles :
          calls' = <<TitleCall("simplifyTitle", arg, <<>>, FALSE, simplifyTitle(arg))>>
    /\ UNCHANGED <<envVars, resolverVars, pc, driverVars>>
    /\ UNCHANGED processVars

\* the second title is the first one followed by one of the suffixes
CallIsEqual ==
    /\ pc = "titles"
    /\ calls = <<>>
    /\ \E arg1 \in Titles, s \in Suffixes, doLiberalSearch \in BOOLEAN :
          calls' = <<TitleCall("isEqual", arg1, arg1 \o s, doLiberalSearch,
                              isEqual(arg1, arg1 \o s, doLiberalSearch))>>
    /\ UNCHANGED <<envVars, resolverVars, pc, driverVars>>
    /\ UNCHANGED processVars

NextTitles ==
    \/ CallNormalizeTitle
    \/ CallNormalizeTitleAgain
    \/ CallSimplifyTitle
    \/ CallIsEqual

SpecTitles == InitTitles /\ [][NextTitles]_vars

-----------------------------------------------------------------------------
(* getSpotifyAlbumId on its own, against album lists longer than one page   *)

Filler(n) == [k \in 1..n |-> Ent(nQ, "f")]

nYclause == <<"Y", " ", "(", "x", ")">>

\* a full page of other albums, then "Y-Z", "Y Z" and two albums named Y
CatAlbumsSecondPage ==
    [artistPages |-> << <<Ent(nX, "a1")>> >>,
     albums |-> ("a1" :> Filler(SpotifyReadBatchSize)
                            \o <<Ent(nYdashZ, "b1"), Ent(nYspaceZ, "b2"),
                                 Ent(nY, "b3"), Ent(nY, "b4")>>),
     tracks |-> ("b1" :> <<>>)]

\* exactly one full page, the album Y being its last entry
CatAlbumsFullPage ==
    [artistPages |-> << <<Ent(nX, "a1")>> >>,
     albums |-> ("a1" :> Filler(SpotifyReadBatchSize - 1) \o <<Ent(nY, "b1")>>),
     tracks |-> ("b1" :> <<>>)]

\* one short page with the album Y released twice
CatAlbumsDuplicates ==
    [artistPages |-> << <<Ent(nX, "a1")>> >>,
     albums |-> ("a1" :> <<Ent(nQ, "b0"), Ent(nYclause, "b5"), Ent(nY, "b1"),
                          Ent(nY, "b2"), Ent(nYspaceZ, "b3")>>),
     tracks |-> ("b1" :> <<>>)]

AlbumCatalogs == {CatAlbumsSecondPage, CatAlbumsFullPage, CatAlbumsDuplicates}

AlbumNames == {ny, nyz, nv}

AlbumCall(artistId, name, doLiberalSearch, f, r) ==
    [op |-> "getSpotifyAlbumId", artistId |-> artistId, name |-> name,
     liberal |-> doLiberalSearch, f |-> f, kind |-> r.kind, id |-> r.val,
     n0 |-> Len(reqs), n1 |-> Len(r.st.reqs),
     cachedBefore |-> cachedAlbums, cachedAfter |-> r.st.cachedAlbums]

InitAlbum ==
    /\ catalog \in AlbumCatalogs
    /\ emptyAlbumResp = "error"
    /\ allowCache = TRUE
    /\ cachedArtists = <<>>
    /\ cachedAlbums = <<>>
    /\ cachedTracks = <<>>
    /\ reqs = <<>>
    /\ calls = <<>>
    /\ pc = "album"
    /\ InitIdleDriver
    /\ handlers = <<>>
    /\ spotifyAuth = SessionCredential
    /\ exitStatus = "running"

CallGetSpotifyAlbumId ==
    /\ pc = "album"
    /\ calls = <<>>
    /\ \E name \in AlbumNames, doLiberalSearch \in BOOLEAN, f \in 0..MaxFail :
          LET done(r) ==
                  /\ SetSt(r.st)
                  /\ calls' = <<AlbumCall("a1", name, doLiberalSearch, f, r)>>
          IN  done(getSpotifyAlbumId("a1", name, doLiberalSearch, St(f)))
    /\ UNCHANGED <<catalog, emptyAlbumResp, allowCache, pc, driverVars>>
    /\ UNCHANGED processVars

\* a second call, with the caches as the first call left them
CallGetSpotifyAlbumIdAgain ==
    /\ pc = "album"
    /\ Len(calls) = 1
    /\ \E name \in AlbumNames, doLiberalSearch \in BOOLEAN, f \in 0..MaxFail :
          LET done(r) ==
                  /\ SetSt(r.st)
                  /\ calls' = Append(calls, AlbumCall("a1", name, doLiberalSearch, f, r))
          IN  done(getSpotifyAlbumId("a1", name, doLiberalSearch, St(f)))
    /\ UNCHANGED <<catalog, emptyAlbumResp, allowCache, pc, driverVars>>
    /\ UNCHANGED processVars

NextAlbum ==
    \/ CallGetSpotifyAlbumId
    \/ CallGetSpotifyAlbumIdAgain

SpecAlbum == InitAlbum /\ [][NextAlbum]_vars

-----------------------------------------------------------------------------
(* getSpotifyTrackIds on its own *)

nVbang == <<"V", "!">>

\* album b1 holds more tracks than one page, with Z and z after the first
\* page; album b2 holds two tracks, album b3 none
CatTracks ==
    [artistPages |-> << <<Ent(nX, "a1")>> >>,
     albums |-> ("a1" :> <<Ent(nY, "b1"), Ent(nQ, "b2"), Ent(nV, "b3")>>),
     tracks |-> ("b1" :> Filler(SpotifyReadBatchSize)
                            \o <<Ent(nZ, "t1"), Ent(nYdashZ, "t2"), Ent(nz, "t3")>>)
                @@ ("b2" :> <<Ent(nZ, "t4"), Ent(nVbang, "t5")>>)
                @@ ("b3" :> <<>>)]

TrackNameLists == {<<>>, <<nZ>>, <<nZ, nv>>, <<nz, nZ, nyz>>, <<nw, nv, nw>>}

TracksCall(albumId, names, f, r) ==
    [op |-> "getSpotifyTrackIds", albumId |-> albumId, names |-> names, f |-> f,
     kind |-> r.kind, found |-> r.val.found, missing |-> r.val.missing,
     n0 |-> Len(reqs), n1 |-> Len(r.st.reqs)]

InitTracks ==
    /\ catalog = CatTracks
    /\ emptyAlbumResp = "error"
    /\ allowCache = TRUE
    /\ cachedArtists = <<>>
    /\ cachedAlbums = <<>>
    /\ cachedTracks = <<>>
    /\ reqs = <<>>
    /\ calls = <<>>
    /\ pc = "tracks"
    /\ InitIdleDriver
    /\ handlers = <<>>
    /\ spotifyAuth = SessionCredential
    /\ exitStatus = "running"

CallGetSpotifyTrackIds ==
    /\ pc = "tracks"
    /\ calls = <<>>
    /\ \E albumId \in {"b1", "b2", "b3"}, names \in TrackNameLists, f \in 0..MaxFail :
          LET done(r) ==
                  /\ SetSt(r.st)
                  /\ calls' = <<TracksCall(albumId, names, f, r)>>
          IN  done(getSpotifyTrackIds(albumId, names, St(f)))
    /\ UNCHANGED <<catalog, emptyAlbumResp, allowCache, pc, driverVars>>
    /\ UNCHANGED processVars

\* a second call, with the caches as the first call left them
CallGetSpotifyTrackIdsAgain ==
    /\ pc = "tracks"
    /\ Len(calls) = 1
    /\ \E albumId \in {"b1", "b2", "b3"}, names \in TrackNameLists, f \in 0..MaxFail :
          LET done(r) ==
                  /\ SetSt(r.st)
                  /\ calls' = Append(calls, TracksCall(albumId, names, f, r))
          IN  done(getSpotifyTrackIds(albumId, names, St(f)))
    /\ UNCHANGED <<catalog, emptyAlbumResp, allowCache, pc, driverVars>>
    /\ UNCHANGED processVars

NextTracks ==
    \/ CallGetSpotifyTrackIds
    \/ CallGetSpotifyTrackIdsAgain

SpecTracks == InitTracks /\ [][NextTracks]_vars

-----------------------------------------------------------------------------
(* preloadExisting on its own, against playlists longer than one page       *)

\* the tracks 1..n, and a playlist that holds some tracks twice
Playlists ==
    {[k \in 1..n |-> k] : n \in {0, 1, SpotifyReadBatchSize - 1, SpotifyReadBatchSize,
                                 SpotifyReadBatchSize + 1, 2 * SpotifyReadBatchSize,
                                 2 * SpotifyReadBatchSize + 1}}
        \cup {[k \in 1..(SpotifyReadBatchSize + 2) |-> (k % 7) + 1]}

PreloadCall(f, r) ==
    [op |-> "preloadExisting", f |-> f, kind |-> r.kind,
     n0 |-> Len(reqs), n1 |-> Len(r.st.reqs)]

InitPlaylist ==
    /\ catalog = CatPlain
    /\ emptyAlbumResp = "error"
    /\ allowCache = TRUE
    /\ cachedArtists = <<>>
    /\ cachedAlbums = <<>>
    /\ cachedTracks = <<>>
    /\ reqs = <<>>
    /\ calls = <<>>
    /\ pc = "playlist"
    /\ favorites = <<>>
    /\ onlyArtists = <<>>
    /\ playlistName \in {nq, nQ, nw, nv}
    /\ noChanges = FALSE
    /\ userId = ""
    /\ playlistCache = <<>>
    /\ playlist \in Playlists
    /\ spotifyIndex = {}
    /\ artistNotices = {}
    /\ offset = 0
    /\ idList = <<>>
    /\ missing = <<>>
    /\ skipped = 0
    /\ trace = <<>>
    /\ runErr = "none"
    /\ ignoredArtists = <<>>
    /\ ids = {}
    /\ pending = {}
    /\ batchIdList = <<>>
    /\ batchJ = 0
    /\ addCalls = <<>>
    /\ handlers = <<>>
    /\ spotifyAuth = SessionCredential
    /\ exitStatus = "running"

CallPreloadExisting ==
    /\ pc = "playlist"
    /\ calls = <<>>
    /\ \E f \in 0..MaxFail :
          LET done(r) ==
                  /\ SetSt(r.st)
                  /\ userId' = r.userId
                  /\ playlistCache' = r.playlistCache
                  /\ spotifyIndex' = r.spotifyIndex
                  /\ calls' = <<PreloadCall(f, r)>>
          IN  done(preloadExisting(playlistName, St(f)))
    /\ UNCHANGED <<envVars, pc, onlyArtists, playlist, artistNotices, offset, idList,
                   missing, skipped, trace, runErr, ignoredArtists, ids, pending,
                   batchIdList, batchJ, addCalls>>
    /\ UNCHANGED processVars

\* a second preload, with the caches and the index as the first one left them
CallPreloadExistingAgain ==
    /\ pc = "playlist"
    /\ Len(calls) = 1
    /\ \E f \in 0..MaxFail :
          LET done(r) ==
                  /\ SetSt(r.st)
                  /\ userId' = r.userId
                  /\ playlistCache' = r.playlistCache
                  /\ spotifyIndex' = r.spotifyIndex
                  /\ calls' = Append(calls, PreloadCall(f, r))
          IN  done(preloadExisting(playlistName, St(f)))
    /\ UNCHANGED <<envVars, pc, onlyArtists, playlist, artistNotices, offset, idList,
                   missing, skipped, trace, runErr, ignoredArtists, ids, pending,
                   batchIdList, batchJ, addCalls>>
    /\ UNCHANGED processVars

NextPlaylist ==
    \/ CallPreloadExisting
    \/ CallPreloadExistingAgain

SpecPlaylist == InitPlaylist /\ [][NextPlaylist]_vars

-----------------------------------------------------------------------------
(* Properties of a run (checked under Spec) *)

\* GetTracksToAdd has returned its result to main
Completed == pc \in {"main", "adding", "done"}

SeqToSet(q) == {q[k] : k \in 1..Len(q)}

\* the favorite's artist is in the allow-list, ignoring case
AllowedFav(fav) ==
    \E k \in 1..Len(onlyArtists) : ToLower(onlyArtists[k]) = ToLower(fav.ArtistName)

\* the identifiers of the entries of a result list that carry the name, ignoring case
NamedIds(list, name) ==
    {list[k].id : k \in {i \in 1..Len(list) : ToLower(list[i].name) = ToLower(name)}}

ArtistRecords(name) == NamedIds(ArtistPage(1), name)

\* the destination tracks found by following the favorite's three names
DestTracks(fav) ==
    UNION {UNION {NamedIds(TrackPage(b, 0, SpotifyReadBatchSize), fav.Name)
                  : b \in NamedIds(AlbumPage(a, 0, SpotifyReadBatchSize), fav.AlbumName)}
           : a \in ArtistRecords(fav.ArtistName)}

\* the favorite of the happy path: allow-listed, the destination has one
\* artist record of its artist's name, with the album, with the track, and
\* the track is not in the index of the existing playlist
Happy(fav) ==
    /\ AllowedFav(fav)
    /\ Cardinality(ArtistRecords(fav.ArtistName)) = 1
    /\ Cardinality(DestTracks(fav)) = 1
    /\ DestTracks(fav) \cap spotifyIndex = {}

EntriesOf(p) == {k \in 1..Len(trace) : trace[k].pos = p}

Occurrences(list, x) == Cardinality({k \in 1..Len(list) : list[k] = x})

NotFoundErrors == {"ArtistNotFound", "AlbumNotFound", "TrackNotFound"}

\* C1: the to-add result never contains an identifier of the index of the
\* existing playlist, also when the lookup of that track succeeded.
C1_ResultDisjointFromIndex ==
    /\ \A k \in 1..Len(idList) : idList[k] \notin spotifyIndex
    /\ ids \cap spotifyIndex = {}
    /\ \A k \in 1..Len(trace) :
          (trace[k].err = "ok" /\ trace[k].id \in spotifyIndex)
              => trace[k].outcome = "inPlaylist"

\* C1 witness: a completed run in which a favorite resolved to a track of the
\* existing playlist and another favorite was collected.
C1_Witness ==
    /\ Completed
    /\ idList # <<>>
    /\ \E k \in 1..Len(trace) :
          trace[k].outcome = "inPlaylist" /\ trace[k].id \in spotifyIndex

\* C2: no identifier is handed to add-tracks more than once, over all the
\* add-calls of a run.
C2_NoIdAddedTwice ==
    \A a, b \in 1..Len(addCalls) :
        \A i \in 1..Len(addCalls[a]), k \in 1..Len(addCalls[b]) :
            (a # b \/ i # k) => addCalls[a][i] # addCalls[b][k]

\* C2 witness: a finished run in which two favorites of different fetch pages
\* resolved to the same track and that track was handed to add-tracks.
C2_Witness ==
    /\ pc = "done"
    /\ \E k, l \in 1..Len(trace) :
          /\ k < l
          /\ trace[k].outcome = "willAdd" /\ trace[l].outcome = "willAdd"
          /\ trace[k].id = trace[l].id
          /\ trace[k].pos <= napsterBatchSize /\ trace[l].pos > napsterBatchSize
          /\ \E a \in 1..Len(addCalls) : trace[k].id \in SeqToSet(addCalls[a])

C4_NotAllowedIsSkipped ==
    /\ \A k \in 1..Len(trace) :
          ~AllowedFav(favorites[trace[k].pos]) =>
              /\ trace[k].outcome = "skipped"
              /\ trace[k].n1 = trace[k].n0
              /\ trace[k].id = NoId
              /\ ToLower(favorites[trace[k].pos].ArtistName) \in artistNotices
    /\ (runErr = "none" /\ pc # "start") =>
          skipped = Cardinality({k \in 1..Len(trace) :
                                    ~AllowedFav(favorites[trace[k].pos])})
    /\ Completed =>
          \A p \in 1..Len(favorites) :
              ~AllowedFav(favorites[p]) => Cardinality(EntriesOf(p)) = 1

\* C4 witness: scenario B within a longer run: a favorite of the artist W was
\* skipped and another favorite was collected.
C4_Witness ==
    /\ Completed
    /\ skipped >= 1
    /\ nw \in artistNotices
    /\ idList # <<>>
    /\ \E k \in 1..Len(trace) : trace[k].outcome = "skipped"

\* C5: at the end of the run, the missing list holds exactly one
\* artist-not-found entry for every allow-listed artist of the favorites that
\* has no destination record.
C5_OneArtistNotFoundEntry ==
    Completed =>
        \A p \in 1..Len(favorites) :
            (AllowedFav(favorites[p]) /\ ArtistRecords(favorites[p].ArtistName) = {})
                => Occurrences(missing, <<ToLower(favorites[p].ArtistName)>>) = 1

\* C6: a favorite whose artist, album or track the destination does not have
\* never aborts the run: when no request to a service failed while it was
\* looked up, the driver leaves a diagnostic for it (or it is passed over
\* because its artist or album already missed on this page), and once
\* GetTracksToAdd has returned every later favorite of the happy path is in
\* the result.
C6_NotFoundDoesNotAbort ==
    \A k \in 1..Len(trace) :
        (/\ AllowedFav(favorites[trace[k].pos])
         /\ DestTracks(favorites[trace[k].pos]) = {}
         /\ ~trace[k].reqFailed) =>
            /\ trace[k].outcome \in NotFoundErrors \cup {"missedArtist", "missedAlbum"}
            /\ runErr = "none" =>
                  \E m \in 1..Len(missing) :
                      missing[m][1] = ToLower(favorites[trace[k].pos].ArtistName)
            /\ Completed =>
                  \A q \in 1..Len(favorites) :
                      (q > trace[k].pos /\ Happy(favorites[q]))
                          => DestTracks(favorites[q]) \subseteq ids

-----------------------------------------------------------------------------
(* Properties of the resolver (checked under SpecResolver) *)

\* the identifiers of the candidates of a page whose lower-cased name is lname
RECURSIVE SameNameIds(_, _)
SameNameIds(page, lname) ==
    IF page = <<>> THEN <<>>
    ELSE (IF ToLower(Head(page).name) = lname THEN <<Head(page).id>> ELSE <<>>)
            \o SameNameIds(Tail(page), lname)

IsSearch(c) == c.op = "searchSpotifyArtists"
IsTrackIds(c) == c.op = "GetSpotifyTrackIdsWithNames"


\* some candidate artist of the first page has an album that isEqual accepts
\* for the requested name, strictly or liberally
AnyAlbumMatches(artist, album) ==
    \E id \in SeqToSet(SameNameIds(ArtistPage(1), artist)) :
        \E k \in 1..Len(catalog.albums[id]) :
            LET an == ToLower(catalog.albums[id][k].name)
            IN  isEqual(an, album, FALSE).eq \/ isEqual(an, album, TRUE).eq

NormalizedNames(names) == [i \in 1..Len(names) |-> normalizeTitle(names[i])]

\* C7 (as claimed): GetSpotifyTrackIdsWithNames never returns success with an
\* empty found map.
C7_NeverEmptySuccess ==
    \A i \in 1..Len(calls) :
        (IsTrackIds(calls[i]) /\ calls[i].kind = "ok")
            => DOMAIN calls[i].found # {}

\* C7 (amended): GetSpotifyTrackIdsWithNames fails with AlbumNotFound exactly
\* when no candidate artist has an album matching the name strictly or
\* liberally; when an album was found but none of the requested names is on a
\* found album it returns success with an empty found map and every requested
\* name, normalised, in missing.
C7_AlbumNotFoundIffNoAlbum ==
    \A i \in 1..Len(calls) :
        LET c == calls[i]
        IN  (IsTrackIds(c) /\ c.kind \in {"ok", "AlbumNotFound"})
                => /\ (c.kind = "AlbumNotFound") <=> ~AnyAlbumMatches(c.artist, c.album)
                   /\ (c.kind = "ok" /\ DOMAIN c.found = {})
                          => c.missing = NormalizedNames(c.tracks)

\* C7 witness: a call that found the album but none of the requested tracks
C7_Witness ==
    \E i \in 1..Len(calls) :
        /\ IsTrackIds(calls[i])
        /\ calls[i].kind = "ok"
        /\ DOMAIN calls[i].found = {}
        /\ Len(calls[i].missing) > 0

\* C8 (as claimed): when a candidate with a matching name exists on some
\* result page, searchSpotifyArtists returns instead of failing.
C8_LaterPageMatchReturned ==
    \A i \in 1..Len(calls) :
        LET c == calls[i]
        IN  (/\ IsSearch(c)
             /\ c.kind # "Fatal"
             /\ \E k \in 1..Len(catalog.artistPages) :
                    SameNameIds(ArtistPage(k), c.artist) # <<>>)
                => c.kind = "ok"

\* C8 (amended): searchSpotifyArtists scans the first result page only: a
\* call not answered from the cache issues exactly one request, the search,
\* and fails with ArtistNotFound exactly when no candidate of the first page
\* has the queried name, whatever the later pages hold.
C8_FirstPageOnly ==
    \A i \in 1..Len(calls) :
        LET c == calls[i]
        IN  (IsSearch(c) /\ ~c.hit /\ c.kind # "Fatal")
                => /\ c.n1 = c.n0 + 1
                   /\ reqs[c.n1].op = "Search"
                   /\ (c.kind = "ArtistNotFound")
                          <=> (SameNameIds(ArtistPage(1), c.artist) = <<>>)

\* C8 witness: a failed search although the second page holds the name
C8_Witness ==
    \E i \in 1..Len(calls) :
        /\ IsSearch(calls[i])
        /\ calls[i].kind = "ArtistNotFound"
        /\ Len(catalog.artistPages) >= 2
        /\ SameNameIds(ArtistPage(2), calls[i].artist) # <<>>

C10_SecondCallCached ==
    \A i, j \in 1..Len(calls) :
        (/\ i < j
         /\ IsSearch(calls[i]) /\ IsSearch(calls[j])
         /\ calls[i].artist = calls[j].artist
         /\ calls[i].kind # "Fatal" /\ calls[j].kind # "Fatal")
            => /\ calls[j].n1 = calls[j].n0
               /\ calls[j].kind = calls[i].kind
               /\ calls[j].ids = calls[i].ids

\* C10 (amended): once searchSpotifyArtists has succeeded for a name, every
\* later call for that name issues no request, succeeds with the same list,
\* and the log holds no later search for that name; the successful call
\* itself issued one request unless the cache already answered it.
C10_CachedAfterSuccess ==
    \A i, j \in 1..Len(calls) :
        (/\ i < j
         /\ IsSearch(calls[i]) /\ IsSearch(calls[j])
         /\ calls[i].artist = calls[j].artist
         /\ calls[i].kind = "ok")
            => /\ calls[j].n1 = calls[j].n0
               /\ calls[j].kind = "ok"
               /\ calls[j].ids = calls[i].ids
               /\ ~calls[i].hit => calls[i].n1 = calls[i].n0 + 1
               /\ \A k \in (calls[i].n1 + 1)..Len(reqs) :
                      ~(reqs[k].op = "Search" /\ reqs[k].a = calls[i].artist)

\* C10 witness: two searches for a name, the first successful and not cached
C10_Witness ==
    \E i, j \in 1..Len(calls) :
        /\ i < j
        /\ IsSearch(calls[i]) /\ IsSearch(calls[j])
        /\ calls[i].artist = calls[j].artist
        /\ calls[i].kind = "ok" /\ ~calls[i].hit
        /\ calls[j].f = 0

-----------------------------------------------------------------------------
(* Properties of the title functions (checked under SpecTitles) *)

\* the text without its trailing clause between the delimiters l and r, and
\* without the whitespace before the clause
WithoutClause(t, l, r) ==
    IF t # <<>> /\ t[Len(t)] = r /\ LastIndex(t, l) >= 0
    THEN TrimRight(SubSeq(t, 1, LastIndex(t, l)))
    ELSE t

LowerChars == {"x", "y", "z", "w", "v", "q"}

\* C14: simplifyTitle returns the trimmed text without its trailing
\* parenthetical or bracketed clause and the whitespace before the clause,
\* when the trimmed text ends with the closing delimiter and contains the
\* opening one, and the trimmed text unchanged otherwise.
C14_SimplifyRemovesClause ==
    \A k \in 1..Len(calls) :
        calls[k].op = "simplifyTitle" =>
            calls[k].res =
                WithoutClause(WithoutClause(TrimSpace(calls[k].arg1), "(", ")"), "[", "]")

\* C15: in liberal mode a title that does not end with a closing delimiter
\* equals the same title followed by a space and a parenthetical clause.
C15_LiberalIgnoresTrailingClause ==
    \A k \in 1..Len(calls) :
        (/\ calls[k].op = "isEqual"
         /\ calls[k].liberal
         /\ calls[k].arg2 = calls[k].arg1 \o <<" ", "(", "y", ")">>
         /\ TrimSpace(calls[k].arg1) # <<>>
         /\ TrimSpace(calls[k].arg1)[Len(TrimSpace(calls[k].arg1))] \notin {")", "]"})
            => (calls[k].res.eq /\ ~calls[k].res.err)

\* C16: the text normalizeTitle returns holds only lower-case letters,
\* digits, apostrophes and single spaces, and neither starts nor ends with
\* a space.
C16_NormalizedIsClean ==
    \A k \in 1..Len(calls) :
        calls[k].op = "normalizeTitle" =>
            /\ \A i \in 1..Len(calls[k].res) :
                  calls[k].res[i] \in LowerChars \cup {"1", "'", " "}
            /\ \A i \in 1..(Len(calls[k].res) - 1) :
                  ~(calls[k].res[i] = " " /\ calls[k].res[i + 1] = " ")
            /\ calls[k].res = TrimSpace(calls[k].res)

\* C17: normalizeTitle applied to a text it returned gives that text again.
C17_NormalizeIdempotent ==
    (Len(calls) = 2 /\ calls[2].op = "normalizeTitle") =>
        /\ calls[2].arg1 = calls[1].res
        /\ calls[2].res = calls[1].res

\* C17 witness: a text with capitals, a run of spaces and a clause has been
\* normalized twice, and the first pass changed it.
C17_Witness ==
    /\ Len(calls) = 2
    /\ calls[1].op = "normalizeTitle" /\ calls[2].op = "normalizeTitle"
    /\ calls[1].arg1 = <<"X", " ", " ", "(", "Y", ")", " ">>
    /\ calls[1].res # calls[1].arg1
    /\ calls[2].res = calls[1].res

-----------------------------------------------------------------------------
(* Properties of getSpotifyAlbumId (checked under SpecAlbum) *)

\* the identifier of the first album of the list that isEqual accepts, or NoId
RECURSIVE FirstMatch(_, _, _)
FirstMatch(albums, name, liberal) ==
    IF albums = <<>> THEN NoId
    ELSE IF isEqual(ToLower(Head(albums).name), name, liberal).eq THEN Head(albums).id
    ELSE FirstMatch(Tail(albums), name, liberal)

\* C11: a liberal call of getSpotifyAlbumId lists the catalog whatever the
\* cache holds and leaves the cache as it was; a strict call whose key was
\* written only by strict calls, or not at all, returns the strict match.
C11_LiberalBypassesCache ==
    \A k \in 1..Len(calls) :
        /\ calls[k].liberal =>
              /\ calls[k].cachedAfter = calls[k].cachedBefore
              /\ calls[k].n1 > calls[k].n0
        /\ (~calls[k].liberal /\ calls[k].kind = "ok") =>
              calls[k].id = FirstMatch(catalog.albums[calls[k].artistId],
                                       calls[k].name, FALSE)
        /\ (~calls[k].liberal
               /\ <<calls[k].artistId, calls[k].name>> \notin DOMAIN calls[k].cachedBefore)
              => calls[k].n1 > calls[k].n0

\* C11 witness: a liberal call matched the album "Y Z" for the name "y z",
\* and the strict call after it listed the catalog and returned "Y-Z".
C11_Witness ==
    \E i, j \in 1..Len(calls) :
        /\ i < j
        /\ calls[i].liberal /\ calls[i].kind = "ok" /\ calls[i].name = nyz
        /\ ~calls[j].liberal /\ calls[j].kind = "ok" /\ calls[j].name = nyz
        /\ calls[j].n1 > calls[j].n0
        /\ calls[i].id # calls[j].id

\* C12: a call of getSpotifyAlbumId during which no request failed returns
\* the first album of the whole listing that isEqual accepts, and fails with
\* AlbumNotFound exactly when the listing holds no such album.
C12_FirstMatchAcrossPages ==
    \A k \in 1..Len(calls) :
        LET verdict(first) ==
                /\ calls[k].kind = "ok" => (first # NoId /\ calls[k].id = first)
                /\ calls[k].kind = "AlbumNotFound" => first = NoId
                /\ calls[k].kind \in {"ok", "AlbumNotFound", "Fatal"}
                /\ calls[k].kind = "Fatal" => calls[k].f # 0
                /\ calls[k].f = 0 => calls[k].kind # "Fatal"
        IN  verdict(FirstMatch(catalog.albums[calls[k].artistId],
                               calls[k].name, calls[k].liberal))

\* C12 witness: the first match was on the second page and was returned,
\* and another call found no album on either page.
C12_Witness ==
    /\ catalog = CatAlbumsSecondPage
    /\ \E i, j \in 1..Len(calls) :
          /\ calls[i].kind = "ok" /\ calls[i].id = "b3" /\ calls[i].n1 = calls[i].n0 + 2
          /\ calls[j].kind = "AlbumNotFound" /\ calls[j].n1 = calls[j].n0 + 3

-----------------------------------------------------------------------------
(* Properties of getSpotifyTrackIds (checked under SpecTracks) *)

\* the identifiers of the tracks of the album whose normalized name is n
TracksNamed(albumId, n) ==
    {catalog.tracks[albumId][i].id :
        i \in {j \in 1..Len(catalog.tracks[albumId]) :
                  normalizeTitle(catalog.tracks[albumId][j].name) = n}}

\* C13: getSpotifyTrackIds fails only when a request failed; otherwise the
\* normalized form of every requested name is either a value of the found
\* map, under the identifier of an album track of that normalized name, or
\* an element of missing, never both, and it is missing exactly when the
\* album has no track of that normalized name.
C13_FoundOrMissing ==
    \A k \in 1..Len(calls) :
        /\ calls[k].kind = "Fatal" => calls[k].f # 0
        /\ calls[k].f = 0 => calls[k].kind = "ok"
        /\ calls[k].kind = "ok" =>
              /\ \A i \in 1..Len(calls[k].names) :
                    LET verdict(n, here) ==
                            /\ (n \in SeqToSet(calls[k].missing)) <=> (here = {})
                            /\ (\E id \in DOMAIN calls[k].found : calls[k].found[id] = n)
                                   <=> (here # {})
                            /\ \A id \in DOMAIN calls[k].found :
                                   calls[k].found[id] = n => id \in here
                    IN  verdict(normalizeTitle(calls[k].names[i]),
                                TracksNamed(calls[k].albumId,
                                            normalizeTitle(calls[k].names[i])))
              /\ \A id \in DOMAIN calls[k].found :
                    \E i \in 1..Len(calls[k].names) :
                        normalizeTitle(calls[k].names[i]) = calls[k].found[id]
              /\ \A m \in 1..Len(calls[k].missing) :
                    \E i \in 1..Len(calls[k].names) :
                        normalizeTitle(calls[k].names[i]) = calls[k].missing[m]

\* C13 witness: a call for the album of more than one page found the track
\* of the second page and reported the other requested name as missing.
C13_Witness ==
    \E k \in 1..Len(calls) :
        /\ calls[k].kind = "ok"
        /\ calls[k].albumId = "b1"
        /\ calls[k].names = <<nZ, nv>>
        /\ calls[k].missing = <<nv>>
        /\ DOMAIN calls[k].found = {"t3"}
        /\ calls[k].n1 = calls[k].n0 + 3

-----------------------------------------------------------------------------
(* Properties of the preload (checked under SpecPlaylist) *)

\* the tracks of the playlist the option names, as the destination holds them
NamedPlaylist ==
    IF ToLower(playlistName) = nq THEN playlist ELSE <<>>

\* the offsets of a complete read of n tracks: each one the previous offset
\* plus the number of tracks received, the last one answered by an empty page
RECURSIVE ExpectedOffsets(_, _)
ExpectedOffsets(off, n) ==
    IF off >= n THEN <<off>>
    ELSE <<off>> \o ExpectedOffsets(off + Min(SpotifyReadBatchSize, n - off), n)

\* the offsets of the playlist requests among the requests from..to
RECURSIVE PlaylistOffsets(_, _)
PlaylistOffsets(from, to) ==
    IF from > to THEN <<>>
    ELSE (IF reqs[from].op = "GetPlaylistTracksOpt" THEN <<reqs[from].n>> ELSE <<>>)
             \o PlaylistOffsets(from + 1, to)

-----------------------------------------------------------------------------
(* Properties of failed runs (checked under SpecLongRun) *)

\* the operations of all requests issued so far
RequestOps == {reqs[k].op : k \in 1..Len(reqs)}

\* C19: a run that ended with a fatal error has left the destination
\* playlist as it was before the run: no add-tracks call has taken effect.
C19_FatalRunCommitsNothing ==
    runErr # "none" => playlist = <<"t2">>

\* C20: with an empty allow-list the run gets no further than the first
\* batch, where it ends with an error: no favorite is fetched or resolved,
\* nothing is collected or returned and no add-tracks call is issued.
C20_EmptyAllowListFails ==
    Len(onlyArtists) = 0 =>
        /\ pc \in {"start", "fetch", "failed"}
        /\ pc = "failed" => runErr = "Fatal"
        /\ RequestOps \subseteq {"CurrentUser", "GetPlaylistsForUser", "GetPlaylistTracksOpt"}
        /\ trace = <<>>
        /\ idList = <<>>
        /\ ids = {}
        /\ addCalls = <<>>
        /\ playlist = <<"t2">>

\* C20 witness: the playlist has been indexed, favorites are waiting at the
\* source, and the first batch has ended the run because the allow-list is
\* empty.
C20_Witness ==
    /\ Len(onlyArtists) = 0
    /\ Len(favorites) > napsterBatchSize
    /\ spotifyIndex = {"t2"}
    /\ pc = "failed"
    /\ runErr = "Fatal"
    /\ reqs[Len(reqs)].op = "GetPlaylistTracksOpt"
    /\ "GetFavoriteTracks" \notin RequestOps

-----------------------------------------------------------------------------
(* Properties of request failures (checked under SpecFailures) *)

\* the trace entries whose resolution issued the request k
EntriesOfRequest(k) ==
    {e \in 1..Len(trace) : trace[e].n0 < k /\ k <= trace[e].n1}

\* C21: a request that failed is the last request of the run, the run has
\* ended with that error, and the favorite being resolved got no not-found
\* diagnostic.
C21_FailureAbortsRun ==
    \A k \in 1..Len(reqs) :
        reqs[k].failed =>
            /\ k = Len(reqs)
            /\ pc = "failed"
            /\ runErr = "Fatal"
            /\ \A e \in EntriesOfRequest(k) : trace[e].outcome = "Fatal"

-----------------------------------------------------------------------------
(* Properties of the playlist lookup of the preload (checked under          *)
(* SpecLongRun)                                                             *)

\* the positions of the user's playlists named as requested, ignoring case
PlaylistMatches ==
    {k \in 1..Len(UserPlaylists) :
        ToLower(UserPlaylists[k].name) = ToLower(playlistName)}

FirstPlaylistMatch ==
    UserPlaylists[CHOOSE k \in PlaylistMatches : \A j \in PlaylistMatches : k <= j].id

\* C22: every playlist identifier the run uses (in the cache, in a request
\* for playlist tracks) is the one of the first user playlist whose name
\* equals the requested name ignoring case; when no playlist has that name
\* the run ends with an error at the preload, and no favorite is fetched
\* or resolved; when one has it and no request failed, the preload succeeds.
C22_PlaylistByNameIgnoringCase ==
    /\ \A n \in DOMAIN playlistCache :
          /\ PlaylistMatches # {}
          /\ n = ToLower(playlistName)
          /\ playlistCache[n] = FirstPlaylistMatch
    /\ \A k \in 1..Len(reqs) :
          reqs[k].op = "GetPlaylistTracksOpt" =>
              PlaylistMatches # {} /\ reqs[k].a = FirstPlaylistMatch
    /\ PlaylistMatches = {} =>
          /\ pc \in {"start", "failed"}
          /\ pc = "failed" => runErr = "Fatal"
          /\ RequestOps \subseteq {"CurrentUser", "GetPlaylistsForUser"}
          /\ trace = <<>>
          /\ idList = <<>>
    /\ (PlaylistMatches # {} /\ pc = "failed"
           /\ RequestOps \subseteq {"CurrentUser", "GetPlaylistsForUser", "GetPlaylistTracksOpt"})
          => \/ reqs[Len(reqs)].failed
             \/ Len(onlyArtists) = 0

\* C22 witness: the requested name "q" is the name of the user's third
\* playlist as written and of the second one ignoring case; the preload
\* has read the second one and the run has gone on to fetch favorites.
C22_Witness ==
    /\ playlistName = nq
    /\ Cardinality(PlaylistMatches) > 1
    /\ playlistCache = (nq :> "p1")
    /\ \E k \in 1..Len(reqs) : reqs[k].op = "GetPlaylistTracksOpt" /\ reqs[k].a = "p1"
    /\ "GetFavoriteTracks" \in RequestOps

-----------------------------------------------------------------------------
(* Properties of the add-calls (checked under SpecLongRun) *)

CeilDiv(n, b) == (n + b - 1) \div b

\* the number of add-calls that carry the identifier
TimesSent(id) ==
    Cardinality({c \in (1..Len(addCalls)) \X (1..spotifyBatchSize) :
                    c[2] <= Len(addCalls[c[1]]) /\ addCalls[c[1]][c[2]] = id})

\* C23: every add-call carries between one and spotifyBatchSize identifiers
\* of the result, every add-call but the last one issued carries exactly
\* spotifyBatchSize, and a run that has added all n > 0 identifiers of the
\* result has issued ceil(n / spotifyBatchSize) add-calls, each identifier
\* in exactly one of them.
C23_BatchChunking ==
    /\ \A c \in 1..Len(addCalls) :
          /\ Len(addCalls[c]) >= 1
          /\ Len(addCalls[c]) <= spotifyBatchSize
          /\ c < Len(addCalls) => Len(addCalls[c]) = spotifyBatchSize
          /\ SeqToSet(addCalls[c]) \subseteq ids
    /\ \A id \in ids : TimesSent(id) <= 1
    /\ (pc = "done" /\ ~noChanges /\ ids # {}) =>
          /\ Len(addCalls) = CeilDiv(Cardinality(ids), spotifyBatchSize)
          /\ \A id \in ids : TimesSent(id) = 1

\* C23 witness: a finished run that added more identifiers than one
\* add-call takes, the last add-call carrying fewer than the others.
C23_Witness ==
    /\ pc = "done"
    /\ Cardinality(ids) > spotifyBatchSize
    /\ Len(addCalls) = 2
    /\ Len(addCalls[1]) = spotifyBatchSize
    /\ Len(addCalls[2]) < spotifyBatchSize

\* the identifiers of the add-calls from..Len(addCalls), in the order sent
RECURSIVE SentFrom(_)
SentFrom(from) ==
    IF from > Len(addCalls) THEN <<>> ELSE addCalls[from] \o SentFrom(from + 1)

\* C24: in a run that has added its result, the identifiers of the
\* successive add-calls, one call after the other, are the collected
\* identifiers in the order in which the driver resolved them.
C24_AddCallsInDiscoveryOrder ==
    (pc = "done" /\ ~noChanges) => SentFrom(1) = idList

-----------------------------------------------------------------------------
(* Properties of the no-changes option (checked under SpecDryRun) *)

\* C25: a run with the no-changes option issues no add-call and leaves the
\* playlist alone, and of two finished runs on the same inputs without a
\* failed request, one with and one without the option, both issued the
\* same fetch and resolution requests, returned the same identifiers and
\* reported the same missing entries, skipped count and ignored artists.
C25_DryRunSameResult ==
    /\ noChanges => (addCalls = <<>> /\ playlist = <<"t2">>)
    /\ \A c \in 1..Len(calls) : calls[c].noChanges => calls[c].addCalls = <<>>
    /\ (Len(calls) = 1 /\ pc = "done" /\ calls[1].clean /\ RunRecord.clean) =>
              /\ calls[1].fetches = RunRecord.fetches
              /\ calls[1].ids = ids
              /\ calls[1].idList = idList
              /\ calls[1].missing = missing
              /\ calls[1].skipped = skipped
              /\ calls[1].ignoredArtists = ignoredArtists
              /\ calls[1].trace = trace

\* C25 witness: a run without the option has added tracks, and the second
\* run, with the option, has finished with the same non-empty result, a
\* skipped favorite and no add-call.
C25_Witness ==
    /\ Len(calls) = 1
    /\ pc = "done"
    /\ noChanges
    /\ calls[1].addCalls # <<>>
    /\ ids # {}
    /\ calls[1].ids = ids
    /\ addCalls = <<>>
    /\ skipped > 0

-----------------------------------------------------------------------------
(* Properties of the process (checked under SpecProcess) *)

\* the invocations of handleResponse whose send has completed
Delivered == {h \in 1..Len(handlers) : handlers[h].state = "done"}

\* C26: a catalog request has been issued only if main holds a credential;
\* main holds a credential exactly when one handler's send has completed,
\* and it is that handler's credential; no second send ever completes,
\* however many callbacks arrive and whenever they arrive.
C26_OneCredentialBeforeRequests ==
    /\ reqs # <<>> => spotifyAuth # NoCredential
    /\ pc \in {"fetch", "summary", "main", "adding", "done", "failed"}
          => spotifyAuth # NoCredential
    /\ Cardinality(Delivered) <= 1
    /\ spotifyAuth = NoCredential => Delivered = {}
    /\ spotifyAuth # NoCredential =>
          \E h \in Delivered : spotifyAuth = Credential(h)

\* C26 witness: two callbacks with a good code have arrived, a callback
\* without one before them or between them; one credential has been handed
\* over, the pipeline has issued requests and finished, and the other
\* handler still stands at its send.
C26_Witness ==
    /\ pc = "done"
    /\ reqs # <<>>
    /\ Cardinality(Delivered) = 1
    /\ \E h \in 1..Len(handlers) : handlers[h].state = "sending"

\* C27: a process that has exited after its run ended with an error has a
\* non-zero exit status.
C27_ErrorExitsNonZero ==
    (exitStatus # "running" /\ runErr # "none") => exitStatus # "0"

-----------------------------------------------------------------------------
(* Properties of the summary (checked under Spec) *)

\* the lower-cased artist names of the favorites the driver skipped because
\* their artist is not in the allow-list
SkippedArtists ==
    {ToLower(favorites[trace[k].pos].ArtistName) :
        k \in {e \in 1..Len(trace) : trace[e].outcome = "skipped"}}

\* C28: once GetTracksToAdd has returned, the list of ignored artists is in
\* strictly ascending order, so without duplicates, and its elements are
\* exactly the lower-cased artist names of the skipped favorites.
C28_IgnoredArtistsSorted ==
    pc \in {"main", "adding", "done"} =>
        /\ \A k \in 1..(Len(ignoredArtists) - 1) :
              StrLess(ignoredArtists[k], ignoredArtists[k + 1])
        /\ SeqToSet(ignoredArtists) = SkippedArtists

\* C28 witness: three favorites of two artists outside the allow-list were
\* skipped, the later artist of the list first, and the list holds the two
\* names.
C28_Witness ==
    /\ pc = "done"
    /\ Len(trace) = 3
    /\ \A k \in 1..3 : trace[k].outcome = "skipped"
    /\ ToLower(favorites[1].ArtistName) = nw
    /\ ignoredArtists = <<nv, nw>>

-----------------------------------------------------------------------------
(* Properties of the not-found diagnostics (checked under Spec) *)

\* C29: when the artist search of the destination has no result at all, a
\* favorite of an allowed artist whose resolution met no failed request
\* ends as artist not found (or is passed over because its artist was
\* already missed), and the run does not end with it.
C29_EmptySearchIsArtistNotFound ==
    catalog.artistPages = <<>> =>
        \A k \in 1..Len(trace) :
            (trace[k].outcome # "skipped" /\ ~trace[k].reqFailed) =>
                trace[k].outcome \in {"ArtistNotFound", "missedArtist"}

\* the lower-cased artist and album names of the favorite of a trace entry
TraceArtist(k) == ToLower(favorites[trace[k].pos].ArtistName)
TraceAlbum(k) == ToLower(favorites[trace[k].pos].AlbumName)

\* C30: after a favorite ended as artist not found, no later favorite of
\* that artist causes a request, and after one ended as album not found, no
\* later favorite of that artist and album does, on the same fetch page or
\* on a later one.
C30_NoRequestAfterNotFound ==
    \A k, l \in 1..Len(trace) :
        (k < l /\ TraceArtist(k) = TraceArtist(l)) =>
            /\ trace[k].outcome = "ArtistNotFound" => trace[l].n1 = trace[l].n0
            /\ (trace[k].outcome = "AlbumNotFound" /\ TraceAlbum(k) = TraceAlbum(l))
                  => trace[l].n1 = trace[l].n0

-----------------------------------------------------------------------------
(* The writes to the resolution caches: calls of the two artist lookups and *)
(* of the strict album lookup, between calls that fill the caches           *)

MaxLookupFail == 2

CacheCatalogs == {CatPlain, CatTwoArtists, CatNoTracks, CatEmpty}

Caches(st) == <<st.cachedArtists, st.cachedAlbums, st.cachedTracks>>

CacheCall(op, a, name, f, r) ==
    [op |-> op, a |-> a, name |-> name, f |-> f, kind |-> r.kind,
     before |-> <<cachedArtists, cachedAlbums, cachedTracks>>,
     after |-> Caches(r.st)]

InitCacheWrites ==
    /\ catalog \in CacheCatalogs
    /\ emptyAlbumResp = "error"
    /\ allowCache = TRUE
    /\ cachedArtists = <<>>
    /\ cachedAlbums = <<>>
    /\ cachedTracks = <<>>
    /\ reqs = <<>>
    /\ calls = <<>>
    /\ pc \in {"lookups", "lookupsOneId"}
    /\ InitIdleDriver

LookupDone(op, a, name, f, r) ==
    /\ SetSt(r.st)
    /\ calls' = Append(calls, CacheCall(op, a, name, f, r))
    /\ UNCHANGED <<catalog, emptyAlbumResp, allowCache, pc, driverVars>>
    /\ UNCHANGED processVars

LookupArtists ==
    /\ pc = "lookups"
    /\ Len(calls) < MaxCalls
    /\ \E name \in {nx, nv}, f \in 0..MaxLookupFail :
          LookupDone("searchSpotifyArtists", NoId, name, f,
                     searchSpotifyArtists(name, St(f)))

\* the artist cache of getSpotifyArtistId holds one identifier per name, the
\* one of searchSpotifyArtists a list: a run uses one of the two
LookupArtistId ==
    /\ pc = "lookupsOneId"
    /\ Len(calls) < MaxCalls
    /\ \E name \in {nx, nv}, f \in 0..MaxLookupFail :
          LookupDone("getSpotifyArtistId", NoId, name, f,
                     getSpotifyArtistId(name, St(f)))

LookupAlbumStrict ==
    /\ pc \in {"lookups", "lookupsOneId"}
    /\ Len(calls) < MaxCalls
    /\ \E artistId \in {"a1", "a2"}, name \in {ny, nq}, f \in 0..MaxLookupFail :
          LookupDone("getSpotifyAlbumId", artistId, name, f,
                     getSpotifyAlbumId(artistId, name, FALSE, St(f)))

LookupTracks ==
    /\ pc = "lookups"
    /\ Len(calls) < MaxCalls
    /\ \E tracks \in TrackQueries :
          LookupDone("GetSpotifyTrackIdsWithNames", NoId, nx, 0,
                     GetSpotifyTrackIdsWithNames(nx, ny, tracks, St(0)))

LookupTrack ==
    /\ pc = "lookupsOneId"
    /\ Len(calls) < MaxCalls
    /\ \E trackName \in {nz, nq} :
          LookupDone("GetSpotifyTrackIdWithNames", NoId, nx, 0,
                     GetSpotifyTrackIdWithNames(nx, ny, trackName, St(0)))

NextCacheWrites ==
    \/ LookupArtists
    \/ LookupArtistId
    \/ LookupAlbumStrict
    \/ LookupTracks
    \/ LookupTrack

SpecCacheWrites == InitCacheWrites /\ [][NextCacheWrites]_vars

-----------------------------------------------------------------------------
(* A run in which no request fails, every step of it taken eventually       *)

NextNoFailure ==
    \/ GetTracksToAddStart(0)
    \/ ImportBatch(0)
    \/ GetTracksToAddReturn
    \/ MainStart(0)
    \/ MainRange(0)
    \/ MainFlushRest(0)

InitNoFailure == Init /\ favorites \in FailureFavoriteLists

\* every step of the run is taken once it can be. The first two steps are
\* enabled exactly when pc is at them, and their weak fairness is written
\* with that condition in place of ENABLED.
SpecNoFailure ==
    /\ InitNoFailure
    /\ [][NextNoFailure]_vars
    /\ []<>(pc # "start") \/ []<><<GetTracksToAddStart(0)>>_vars
    /\ []<>(pc # "fetch") \/ []<><<ImportBatch(0)>>_vars
    /\ WF_vars(GetTracksToAddReturn)
    /\ WF_vars(MainStart(0))
    /\ WF_vars(MainRange(0))
    /\ WF_vars(MainFlushRest(0))

-----------------------------------------------------------------------------
(* The same calls of GetSpotifyTrackIdsWithNames with the caches allowed    *)
(* and then with allowCache = false                                         *)

Replay(r, n0) ==
    [kind |-> r.kind, found |-> r.val.found, missing |-> r.val.missing,
     n |-> Len(r.st.reqs) - n0]

InitTransparency ==
    /\ InitEnv
    /\ emptyAlbumResp = "error"
    /\ pc = "cached"
    /\ InitIdleDriver

CachedCall ==
    /\ pc = "cached"
    /\ Len(calls) < MaxCalls
    /\ \E artistName \in {nx, nv}, albumName \in AlbumQueries, tracks \in TrackQueries :
          LET done(r) ==
                  /\ SetSt(r.st)
                  /\ calls' = Append(calls,
                        Call("GetSpotifyTrackIdsWithNames", artistName, albumName,
                             tracks, 0, r, <<>>, r.val))
          IN  done(GetSpotifyTrackIdsWithNames(artistName, albumName, tracks, St(0)))
    /\ UNCHANGED <<catalog, emptyAlbumResp, allowCache, pc, driverVars>>
    /\ UNCHANGED processVars

\* the caches keep what the calls stored, and are no longer looked at
DisableCache ==
    /\ pc = "cached"
    /\ calls # <<>>
    /\ allowCache' = FALSE
    /\ pc' = "uncached"
    /\ UNCHANGED <<catalog, emptyAlbumResp, resolverVars, calls, driverVars>>
    /\ UNCHANGED processVars

\* the next call of the sequence, repeated with allowCache = false
UncachedCall ==
    /\ pc = "uncached"
    /\ Len(trace) < Len(calls)
    /\ LET done(r) ==
               /\ SetSt(r.st)
               /\ trace' = Append(trace, Replay(r, Len(reqs)))
           again(c) ==
               done(GetSpotifyTrackIdsWithNames(c.artist, c.album, c.tracks, St(0)))
       IN  again(calls[Len(trace) + 1])
    /\ UNCHANGED <<envVars, calls, pc, onlyArtists, userId, playlistCache, playlist,
                   spotifyIndex, artistNotices, offset, idList, missing, skipped,
                   runErr, ignoredArtists, ids, pending, batchIdList, batchJ,
                   addCalls>>
    /\ UNCHANGED processVars

NextTransparency ==
    \/ CachedCall
    \/ DisableCache
    \/ UncachedCall

SpecTransparency == InitTransparency /\ [][NextTransparency]_vars

-----------------------------------------------------------------------------
(* The order of the strict and the liberal album lookups (C31) *)

AlbumRequests(c) ==
    {k \in (c.n0 + 1)..c.n1 : reqs[k].op = "GetArtistAlbumsOpt"}

LiberalRequests(c) == {k \in AlbumRequests(c) : reqs[k].liberal}

Candidates(c) == SeqToSet(SameNameIds(ArtistPage(1), c.artist))

\* the album a strict lookup for the candidate ends with, or NoId
StrictAlbum(c, id) == FirstMatch(catalog.albums[id], c.album, FALSE)

\* none of the requested names is a track of the album
NoTrackOn(albumId, names) ==
    LET tracks == indexTracks(TrackPage(albumId, 0, SpotifyReadBatchSize), <<>>)
    IN  \A i \in 1..Len(names) : normalizeTitle(names[i]) \notin DOMAIN tracks

\* within one call no strict albums request follows a liberal one, and in a
\* call that starts with empty caches every candidate was listed strictly
\* before the first liberal request
StrictBeforeLiberal(c) ==
    /\ \A i \in LiberalRequests(c) : \A j \in AlbumRequests(c) :
           i < j => reqs[j].liberal
    /\ (c.n0 = 0 /\ LiberalRequests(c) # {})
           => \A id \in Candidates(c) :
                 \E j \in AlbumRequests(c) :
                     /\ ~reqs[j].liberal
                     /\ reqs[j].a = id
                     /\ \A i \in LiberalRequests(c) : j < i

\* C31 (as claimed): within one call of GetSpotifyTrackIdsWithNames every
\* strict album lookup is issued before any liberal one, and a liberal lookup
\* is issued only if the strict lookup of every candidate artist ended in
\* AlbumNotFound.
C31_LiberalOnlyAfterAlbumNotFound ==
    \A i \in 1..Len(calls) :
        IsTrackIds(calls[i])
            => /\ StrictBeforeLiberal(calls[i])
               /\ LiberalRequests(calls[i]) # {}
                      => \A id \in Candidates(calls[i]) :
                             StrictAlbum(calls[i], id) = NoId

\* C31 (amended): within one call of GetSpotifyTrackIdsWithNames every strict
\* album lookup is issued before any liberal one, and a liberal lookup is
\* issued only if, for every candidate artist, the strict lookup ended in
\* AlbumNotFound or the album it found holds none of the requested tracks.
C31_LiberalOnlyAfterStrictPass ==
    \A i \in 1..Len(calls) :
        IsTrackIds(calls[i])
            => /\ StrictBeforeLiberal(calls[i])
               /\ LiberalRequests(calls[i]) # {}
                      => \A id \in Candidates(calls[i]) :
                             \/ StrictAlbum(calls[i], id) = NoId
                             \/ NoTrackOn(StrictAlbum(calls[i], id), calls[i].tracks)

\* C31 witness: a call whose strict lookup found an album without any of the
\* requested tracks and that went on to a liberal lookup
C31_Witness ==
    \E i \in 1..Len(calls) :
        /\ IsTrackIds(calls[i])
        /\ LiberalRequests(calls[i]) # {}
        /\ \E id \in Candidates(calls[i]) : StrictAlbum(calls[i], id) # NoId

-----------------------------------------------------------------------------
(* Cache writes only after a confirmed match (C32) *)

LookupOps == {"searchSpotifyArtists", "getSpotifyArtistId", "getSpotifyAlbumId"}

\* C32: a call of searchSpotifyArtists, of getSpotifyArtistId or of the
\* strict getSpotifyAlbumId that fails (ArtistNotFound, AlbumNotFound or a
\* failed request) leaves the artist, album and track caches as they were
\* before the call; a successful one writes at most its own entry.
C32_FailedLookupWritesNothing ==
    \A i \in 1..Len(calls) :
        LET c == calls[i]
        IN  c.op \in LookupOps
                => /\ c.kind # "ok" => c.after = c.before
                   /\ c.after[3] = c.before[3]
                   /\ c.op = "getSpotifyAlbumId"
                          => /\ c.after[1] = c.before[1]
                             /\ DOMAIN c.after[2] \subseteq
                                    DOMAIN c.before[2] \cup {<<c.a, c.name>>}
                   /\ c.op # "getSpotifyAlbumId"
                          => /\ c.after[2] = c.before[2]
                             /\ DOMAIN c.after[1] \subseteq
                                    DOMAIN c.before[1] \cup {c.name}

\* C32 witness: with all three caches filled by a successful resolution, a
\* strict album lookup ended with AlbumNotFound
C32_Witness ==
    /\ Len(calls) = 2
    /\ calls[1].op \in {"GetSpotifyTrackIdsWithNames", "GetSpotifyTrackIdWithNames"}
    /\ calls[1].after[1] # <<>> /\ calls[1].after[2] # <<>> /\ calls[1].after[3] # <<>>
    /\ calls[2].op = "getSpotifyAlbumId"
    /\ calls[2].kind = "AlbumNotFound"
    /\ calls[2].after = calls[1].after

-----------------------------------------------------------------------------
(* The track list of an album is read once (C33) *)

\* the album-tracks requests of the run for the album that were answered
\* with the end of the list
CompletedReads(albumId) ==
    {k \in 1..Len(reqs) :
        /\ reqs[k].op = "GetAlbumTracksOpt"
        /\ reqs[k].a = albumId
        /\ ~reqs[k].failed
        /\ reqs[k].n = Len(catalog.tracks[albumId])}

\* C33: after a call of getSpotifyTrackIds for an album has completed, a
\* later call for the same album issues no request, succeeds whatever the
\* catalog would answer, and gives the result the cached normalized-name map
\* gives; the track list of an album is read to its end at most once.
C33_TrackListReadOnce ==
    /\ \A albumId \in DOMAIN catalog.tracks :
           Cardinality(CompletedReads(albumId)) <= 1
    /\ (Len(calls) = 2 /\ calls[1].kind = "ok" /\ calls[2].albumId = calls[1].albumId)
           => LET answer(c, r) ==
                      /\ c.n1 = c.n0
                      /\ c.kind = "ok"
                      /\ c.found = r.found
                      /\ c.missing = r.missing
              IN  answer(calls[2],
                         lookupTracks(calls[2].names, cachedTracks[calls[2].albumId],
                             [isNil |-> FALSE, found |-> <<>>, missing |-> <<>>]))

\* C33 witness: the second call for the album of more than one page, made
\* when the next request would fail, found a track without any request
C33_Witness ==
    /\ Len(calls) = 2
    /\ calls[1].kind = "ok"
    /\ calls[1].albumId = "b1"
    /\ calls[1].n1 > calls[1].n0 + 1
    /\ calls[2].albumId = "b1"
    /\ calls[2].f = 1
    /\ calls[2].names # calls[1].names
    /\ DOMAIN calls[2].found # {}
    /\ Len(reqs) = calls[1].n1

-----------------------------------------------------------------------------
(* The offsets of the fetch loop (C34) *)

IsFavoritesRequest(r) == r.op = "GetFavoriteTracks"

FavoritesRequests == SelectSeq(reqs, IsFavoritesRequest)

\* the number of favorites the request was answered with
Returned(r) == Len(FavoritePage(r.n, napsterBatchSize))

\* the loop has received its empty page
FetchLoopEnded ==
    \E k \in 1..Len(FavoritesRequests) :
        ~FavoritesRequests[k].failed /\ Returned(FavoritesRequests[k]) = 0

\* C34: the first favorites page is requested at offset 0 and every later
\* one at the offset plus the number of items of the page before it, i.e. at
\* the total number of items received so far; a page is requested only after
\* a page with items, so the loop stops at the first empty page; once it has
\* stopped, every favorite has been processed exactly once, in order.
C34_FetchOffsets ==
    LET ordered(fr) ==
            /\ \A k \in 1..Len(fr) :
                   IF k = 1 THEN fr[k].n = 0
                   ELSE /\ fr[k].n = fr[k - 1].n + Returned(fr[k - 1])
                        /\ ~fr[k - 1].failed
                        /\ Returned(fr[k - 1]) > 0
                        /\ Returned(fr[k - 1]) <= napsterBatchSize
            /\ FetchLoopEnded
                   => /\ Len(trace) = Len(favorites)
                      /\ \A p \in 1..Len(favorites) : trace[p].pos = p
                      /\ fr[Len(fr)].n = Len(favorites)
    IN  ordered(FavoritesRequests)

\* C34 witness: a full page, a shorter page and the empty page were fetched
\* and each favorite was processed once
C34_Witness ==
    /\ pc = "summary"
    /\ Len(FavoritesRequests) = 3
    /\ FavoritesRequests[2].n = napsterBatchSize
    /\ Returned(FavoritesRequests[2]) < napsterBatchSize
    /\ FavoritesRequests[3].n = Len(favorites)
    /\ Len(trace) = Len(favorites)

-----------------------------------------------------------------------------
(* Termination of a run without request failures (C35) *)

\* the options name an allow-list and a playlist the user has
ValidOptions == Len(onlyArtists) > 0 /\ PlaylistMatches # {}

\* C35: with finite favorites, playlist and catalog listings and no failing
\* request, a run with valid options ends its fetch loop and reaches the
\* summary of GetTracksToAdd.
C35_RunReachesSummary == ValidOptions => <>(pc = "summary")

-----------------------------------------------------------------------------
(* The caches do not change any result (C36) *)

\* C36: for every sequence of calls of GetSpotifyTrackIdsWithNames against
\* an unchanged catalog, each call made with the caches allowed has the
\* result kind, the found map and the missing list of the same call made
\* with allowCache = false, and never issues more requests than it.
C36_CacheTransparent ==
    \A i \in 1..Len(trace) :
        /\ trace[i].kind = calls[i].kind
        /\ trace[i].found = calls[i].found
        /\ trace[i].missing = calls[i].missing
        /\ calls[i].n1 - calls[i].n0 <= trace[i].n

\* C36 witness: the second call of a sequence was answered from the caches
\* with fewer requests than its repetition without them, which found the
\* same tracks
C36_Witness ==
    /\ Len(trace) = 2
    /\ calls[2].hit
    /\ calls[2].n1 - calls[2].n0 < trace[2].n
    /\ calls[2].tracks # calls[1].tracks
    /\ DOMAIN trace[2].found # {}
    /\ trace[2].found = calls[2].found

-----------------------------------------------------------------------------
(* Every authorization handler completes (C37) *)

\* C37: every invocation of handleResponse that stands at its send on the
\* hand-off channel eventually completes the send, also one that arrives
\* after main has taken the first credential.
C37_HandlersComplete ==
    \A h \in 1..MaxCallbacks :
        [](h <= Len(handlers) /\ handlers[h].state = "sending"
             => <>(h <= Len(handlers) /\ handlers[h].state = "done"))

-----------------------------------------------------------------------------
(* The playlist identifier is asked for once (C38) *)

\* the playlists-for-user requests of the run that were answered
PlaylistsRequests ==
    {k \in 1..Len(reqs) : reqs[k].op = "GetPlaylistsForUser" /\ ~reqs[k].failed}

\* C38: the two calls of GetSpotifyPlaylistId of a run (in preloadExisting
\* and in main before the add-calls), made with the same user and the same
\* playlist name in whatever letter case, issue one playlists-for-user
\* request between them: the second call is answered from the playlist
\* cache.
C38_PlaylistsRequestedOnce == Cardinality(PlaylistsRequests) <= 1

-----------------------------------------------------------------------------
(* The single-track resolver and the missing album (C39) *)

\* the album-tracks requests of the single-track resolver
AlbumTracksRequests == {k \in 1..Len(reqs) : reqs[k].op = "GetAlbumTracks"}

\* C39: when the strict and the liberal album lookup of the single-track
\* resolver both fail, the resolver returns AlbumNotFound without an
\* album-tracks request: the tracks of the empty album identifier are never
\* asked for.
C39_NoTracksOfEmptyAlbum == \A k \in AlbumTracksRequests : reqs[k].a # NoId

-----------------------------------------------------------------------------
(* The liberal comparison is defined for every pair of texts (C40) *)

\* C40: simplifyTitle returns a text, and isEqual in liberal mode returns a
\* boolean without an error, for every text, the empty one and the ones made
\* of spaces included.
C40_LiberalComparisonTotal ==
    \A k \in 1..Len(calls) :
        /\ calls[k].op = "simplifyTitle" => calls[k].res # PANIC
        /\ calls[k].op = "isEqual" /\ calls[k].liberal => ~calls[k].res.err


====
